---- MODULE Spec2Model ----
(***************************************************************************)
(* Ephemeris caching of Solar-System-Live.                                 *)
(*                                                                         *)
(*   server/src/cache/ephemerisCache.ts      multi-body snapshot cache     *)
(*   server/src/cache/bodyEphemerisCache.ts  single-body cache and routes  *)
(*   server/src/services/catalogService.ts   catalog cache                 *)
(*                                                                         *)
(* Node runs every handler to its next await; the continuations of         *)
(* settled promises (microtasks) all run before the next timer, HTTP       *)
(* request or upstream response (macrotasks) is handled.  Each action      *)
(* below is the code between two suspension points.                        *)
(*                                                                         *)
(* Time is counted in units of 60 s.  In Spec and SpecBody the process is  *)
(* started without REDIS_URL (memory backend), and the requests of one     *)
(* behaviour are all on one group of routes: /planets with the prewarm    *)
(* loop running, or /planets/full or /body/:id with that loop configured   *)
(* off.  Spec is the whole router; SpecFull is the /planets/full route     *)
(* alone and SpecBody the /body/:id route alone.                           *)
(* SpecModes takes both snapshot modes, or several body ids, in one        *)
(* behaviour.  SpecRedis starts the process with REDIS_URL, /planets/full  *)
(* being requested; SpecRevalidate is that process where no request asks   *)
(* for a refresh, running on under the fairness the event loop gives.      *)
(* SpecSlowGet is SpecRevalidate's process where time may pass while a     *)
(* request waits for Redis.  SpecNoTtl starts the process with             *)
(* CACHE_TTL_MS=0.  SpecSettles takes /planets/full with Redis or          *)
(* /body/:id without, under the fairness that every fetch and every Redis  *)
(* operation settles.  SpecCatalog is the catalog route                    *)
(* (server/src/services/catalogService.ts, server/src/routes/catalog.ts).  *)
(***************************************************************************)
EXTENDS Integers, Sequences, FiniteSets, TLC

\* ------------------------------------------------------------- bounds
NumCallers == 2
NumPlanets == 2
NumBodies == 2
MaxClock == 3
\* refreshSnapshot promises alive at once
MaxRefresh == 3
\* requests in progress at once where a specification takes fewer of them
NumSoloCallers == 1
\* last clock value where both modes and the body ids are requested together
ModesClock == 2

\* ---------------------------------------------------------- constants
\* the default of CACHE_TTL_MS, 120 000 ms = 2 units
DEFAULT_CACHE_TTL_MS == 2
\* the default of BODY_CACHE_TTL_MS, 60 000 ms = 1 unit
DEFAULT_BODY_CACHE_TTL_MS == 1
\* the default of CATALOG_CACHE_TTL_MS, 6 h = 360 units
DEFAULT_CATALOG_CACHE_TTL_MS == 360

Modes == {"state-vectors", "full"}
\* the route groups: the snapshot routes of each mode, and /body/:id
Routes == Modes \cup {"body"}
Callers == 1..NumCallers
RefreshIds == 1..MaxRefresh
SoloCallers == 1..NumSoloCallers
\* the tracked bodies, in catalog order; a body's name is its index
PLANETS == 1..NumPlanets
\* the ids of the body catalog
BodyIds == 1..NumBodies

VARIABLES
  clock,          \* Date.now()
  memoryCache,    \* mode -> CacheRecord or NoRecord
  inflightByMode, \* mode -> id of the registered refresh promise, 0 when none
  refreshes,      \* the refreshSnapshot promises that are referenced, by id
  callers,        \* the HTTP requests on the snapshot routes
  served,         \* the route group that is requested
  env,            \* process.env: the settings the process was started with
  unhandled,      \* rejected promises that no handler is attached to
  crashed,        \* the process was terminated
  cache,          \* body id -> CacheEntry or NoEntry
  inflight,       \* body id -> owner of the registered fetch promise, 0 when none
  fetches,        \* the fetch promises of getBodyEphemeris, by owning request
  bodyCallers,    \* the HTTP requests on /body/:id
  stored,         \* body id -> the entry of the last cache.set(id, ...), kept when
                  \* the cache deletes it (history)
  redisReady,     \* the promise redisReady: "none" (null, no REDIS_URL), "pending",
                  \* "client" (resolved with the client) or "null" (connect failed)
  reachable,      \* the Redis server answers commands
  store,          \* the Redis server: mode (its key) -> value with expiry, or NoKey
  cacheByLang,    \* language key -> catalog CacheEntry or NoCatalog
  inflightByLang, \* language key -> owner of the registered build promise, 0 when none
  builds,         \* the build promises of getCatalog, by owning request
  catalogCallers  \* the HTTP requests on the catalog route

bodyVars == <<cache, inflight, fetches, bodyCallers, stored>>
redisVars == <<redisReady, reachable, store>>
catalogVars == <<cacheByLang, inflightByLang, builds, catalogCallers>>
vars == <<clock, memoryCache, inflightByMode, refreshes, callers, served, env, unhandled, crashed,
          cache, inflight, fetches, bodyCallers, stored, redisReady, reachable, store,
          cacheByLang, inflightByLang, builds, catalogCallers>>

\* a member of process.env: not set, or set to the text of a number
Unset == [set |-> FALSE, value |-> 0]
Set(v) == [set |-> TRUE, value |-> v]

\* Number(process.env.CACHE_TTL_MS ?? 120_000)
CACHE_TTL_MS ==
  IF env.CACHE_TTL_MS.set THEN env.CACHE_TTL_MS.value ELSE DEFAULT_CACHE_TTL_MS

\* Number(process.env.BODY_CACHE_TTL_MS ?? process.env.CACHE_TTL_MS ?? 60_000)
BODY_CACHE_TTL_MS ==
  IF env.BODY_CACHE_TTL_MS.set THEN env.BODY_CACHE_TTL_MS.value
  ELSE IF env.CACHE_TTL_MS.set THEN env.CACHE_TTL_MS.value
  ELSE DEFAULT_BODY_CACHE_TTL_MS

\* Number(process.env.CACHE_STALE_MS ?? Math.floor(CACHE_TTL_MS * 0.5))
STALE_WHILE_REVALIDATE_MS ==
  IF env.CACHE_STALE_MS.set THEN env.CACHE_STALE_MS.value ELSE CACHE_TTL_MS \div 2

\* the settings of the process where nothing else is said: only
\* BODY_CACHE_TTL_MS is set, to 120 000 ms = 2 units
UsualEnv ==
  [CACHE_TTL_MS |-> Unset, CACHE_STALE_MS |-> Unset, BODY_CACHE_TTL_MS |-> Set(2),
   CATALOG_CACHE_TTL_MS |-> Unset, WIKI_LANG_PRIMARY |-> Unset]

\* Number(process.env.CATALOG_CACHE_TTL_MS ?? 6 * 60 * 60 * 1000)
CATALOG_CACHE_TTL_MS ==
  IF env.CATALOG_CACHE_TTL_MS.set THEN env.CATALOG_CACHE_TTL_MS.value
  ELSE DEFAULT_CATALOG_CACHE_TTL_MS

\* process.env.WIKI_LANG_PRIMARY ?? 'fr'
WIKI_LANG_PRIMARY ==
  IF env.WIKI_LANG_PRIMARY.set THEN env.WIKI_LANG_PRIMARY.value ELSE "fr"

\* the keys of cacheByLang and inflightByLang
LangKeys == {"fr", "en"}
\* what ?lang= holds in a request: nothing, or one of these texts
LangParams == {"undefined", "fr", "en-US", "de"}

NoCatalog == [expiresAt |-> -1]
IdleCatalogCaller ==
  [pc |-> "idle", key |-> "fr", force |-> FALSE, awaiting |-> 0, status |-> 0,
   result |-> [kind |-> "pending"]]

\* the catalog service as the module is loaded
InitCatalog ==
  /\ cacheByLang = [k \in LangKeys |-> NoCatalog]
  /\ inflightByLang = [k \in LangKeys |-> 0]
  /\ builds = [c \in Callers |-> [stage |-> "free"]]
  /\ catalogCallers = [c \in Callers |-> IdleCatalogCaller]

NoRecord == [cachedAt |-> -1]
NoResult == [kind |-> "pending"]
FreeSlot == [stage |-> "free"]
IdleCaller ==
  [pc |-> "idle", mode |-> "state-vectors", force |-> FALSE, now |-> 0,
   awaiting |-> 0, status |-> 0, result |-> NoResult]
NoEntry == [cachedAt |-> -1]
NoKey == [expiresAt |-> -1]
IdleBodyCaller ==
  [pc |-> "idle", id |-> 1, force |-> FALSE, now |-> 0,
   awaiting |-> 0, status |-> 0, result |-> NoResult]

\* ------------------------------------------------------ pure functions

Max(a, b) == IF a >= b THEN a ELSE b

\* mutant: the map of fallback bodies is empty
HasFallbackNever(cached, name) == FALSE

\* fallbackBodies.get(name): the last body of the cached payload with that name
HasFallback(cached, name) ==
  /\ cached # NoRecord
  /\ \E i \in 1..Len(cached.payload.bodies) : cached.payload.bodies[i].name = name

FallbackOf(cached, name) ==
  LET bs == cached.payload.bodies
      i == CHOOSE k \in 1..Len(bs) :
             /\ bs[k].name = name
             /\ \A j \in (k+1)..Len(bs) : bs[j].name # name
  IN bs[i]

\* mutant: the previous snapshot is not consulted for a body that failed
RECURSIVE MergeResultsNoFallback(_, _, _, _)
MergeResultsNoFallback(cached, results, i, acc) ==
  IF i > Len(results) THEN acc
  ELSE
    LET r == results[i] IN
    IF r.status = "fulfilled"
    THEN MergeResultsNoFallback(cached, results, i + 1,
           [acc EXCEPT !.bodies = Append(@, [name |-> i, data |-> r.value])])
    ELSE MergeResultsNoFallback(cached, results, i + 1,
           [acc EXCEPT !.missing = Append(@, i)])

\* mutant: a body taken from the previous snapshot is not named in usedFallback
RECURSIVE MergeResultsUnnamed(_, _, _, _)
MergeResultsUnnamed(cached, results, i, acc) ==
  IF i > Len(results) THEN acc
  ELSE
    LET r == results[i] IN
    IF r.status = "fulfilled"
    THEN MergeResultsUnnamed(cached, results, i + 1,
           [acc EXCEPT !.bodies = Append(@, [name |-> i, data |-> r.value])])
    ELSE IF HasFallback(cached, i)
    THEN MergeResultsUnnamed(cached, results, i + 1,
           [acc EXCEPT !.bodies = Append(@, FallbackOf(cached, i))])
    ELSE MergeResultsUnnamed(cached, results, i + 1,
           [acc EXCEPT !.missing = Append(@, i)])

\* results.forEach of buildPlanetSnapshot: bodies, usedFallback, missing
RECURSIVE MergeResults(_, _, _, _)
MergeResults(cached, results, i, acc) ==
  IF i > Len(results) THEN acc
  ELSE
    LET r == results[i] IN
    IF r.status = "fulfilled"
    THEN MergeResults(cached, results, i + 1,
           [acc EXCEPT !.bodies = Append(@, [name |-> i, data |-> r.value])])
    ELSE IF HasFallback(cached, i)
    THEN MergeResults(cached, results, i + 1,
           [acc EXCEPT !.usedFallback = Append(@, i),
                       !.bodies = Append(@, FallbackOf(cached, i))])
    ELSE MergeResults(cached, results, i + 1,
           [acc EXCEPT !.missing = Append(@, i)])

\* mutant: a snapshot without bodies is returned like any other
buildPlanetSnapshotEmpty(cached, results) ==
  LET m == MergeResults(cached, results, 1,
             [bodies |-> <<>>, usedFallback |-> <<>>, missing |-> <<>>])
  IN [threw |-> FALSE,
      payload |->
        [bodies |-> m.bodies,
         metadata |->
           [partial |-> (Len(m.usedFallback) > 0 \/ Len(m.missing) > 0),
            fallbackBodies |-> m.usedFallback,
            missingBodies |-> m.missing]]]

\* buildPlanetSnapshot after the fetch loop: the snapshot, or the thrown error
buildPlanetSnapshot(cached, results) ==
  LET m == MergeResults(cached, results, 1,
             [bodies |-> <<>>, usedFallback |-> <<>>, missing |-> <<>>])
  IN IF Len(m.bodies) = 0
     THEN [threw |-> TRUE, message |-> "No Horizons data available"]
     ELSE [threw |-> FALSE,
           payload |->
             [bodies |-> m.bodies,
              metadata |->
                [partial |-> (Len(m.usedFallback) > 0 \/ Len(m.missing) > 0),
                 fallbackBodies |-> m.usedFallback,
                 missingBodies |-> m.missing]]]

\* decoratePayloadMetadata: a new payload, the given one is left as it is
decoratePayloadMetadata(payload, cacheState, backend, cacheAgeMs, correlationId, dateNow) ==
  LET base == payload.metadata IN
  [payload EXCEPT !.metadata =
     [cacheStatus |-> cacheState,
      cacheBackend |-> backend,
      cacheAgeMs |-> cacheAgeMs,
      cacheExpiresInMs |-> Max(0, CACHE_TTL_MS - cacheAgeMs),
      cacheStale |-> (cacheState = "STALE"),
      requestId |-> IF correlationId # 0 THEN correlationId
                    ELSE IF "requestId" \in DOMAIN base THEN base.requestId ELSE 0,
      generatedAt |-> IF "generatedAt" \in DOMAIN base THEN base.generatedAt
                      ELSE dateNow - cacheAgeMs]
     @@ base]

\* mutant: the record is looked up under the key of the other mode
readCacheOtherKey(mode) == memoryCache[CHOOSE m \in Modes : m # mode]

\* readCache without a Redis client: memoryCache.get(mode) ?? null
readCache(mode) == memoryCache[mode]

\* a value of req.query.refresh or req.headers['x-refresh-cache']: absent,
\* a string, or an array of strings
Absent == [kind |-> "absent"]
String(v) == [kind |-> "string", value |-> v]
Array(vs) == [kind |-> "array", value |-> vs]

\* the requests: Node delivers a header of this name as one string
Requests ==
  [refresh : {Absent, String("1"), String("true"), String("0"),
              Array(<<"0", "1">>), Array(<<"0">>)},
   header : {Absent, String("1"), String("true"), String("0")}]

\* refreshParam.find((v) => v === '1' || v === 'true')
Find(vs) ==
  IF \E i \in 1..Len(vs) : vs[i] \in {"1", "true"}
  THEN vs[CHOOSE i \in 1..Len(vs) :
            /\ vs[i] \in {"1", "true"}
            /\ \A j \in 1..(i - 1) : vs[j] \notin {"1", "true"}]
  ELSE "undefined"

\* parseForceRefresh(req)
parseForceRefresh(req) ==
  LET refreshParam == req.refresh
      refreshParamValue ==
        IF refreshParam.kind = "string" THEN refreshParam.value
        ELSE IF refreshParam.kind = "array" THEN Find(refreshParam.value)
        ELSE "undefined"
      refreshHeaderRaw == req.header
      refreshHeader ==
        IF refreshHeaderRaw.kind = "array"
        THEN IF Len(refreshHeaderRaw.value) > 0 THEN refreshHeaderRaw.value[1]
             ELSE "undefined"
        ELSE IF refreshHeaderRaw.kind = "string" THEN refreshHeaderRaw.value
        ELSE "undefined"
  IN \/ refreshParamValue = "1"
     \/ refreshParamValue = "true"
     \/ refreshHeader = "1"
     \/ refreshHeader = "true"

\* the handlers read the query and the header through parseForceRefresh alone:
\* one request for each value it gives stands for the requests with that value
RequestClasses ==
  {CHOOSE req \in Requests : parseForceRefresh(req) = force :
     force \in {parseForceRefresh(req) : req \in Requests}}

\* ------------------------------------------------------------ state

Init ==
  /\ clock = 0
  /\ InitCatalog
  /\ memoryCache = [m \in Modes |-> NoRecord]
  /\ inflightByMode = [m \in Modes |-> 0]
  /\ refreshes = [rid \in RefreshIds |-> FreeSlot]
  /\ callers = [c \in Callers |-> IdleCaller]
  /\ served \in Routes
  /\ env = UsualEnv
  /\ unhandled = 0
  /\ crashed = FALSE
  /\ cache = [id \in BodyIds |-> NoEntry]
  /\ inflight = [id \in BodyIds |-> 0]
  /\ fetches = [c \in Callers |-> FreeSlot]
  /\ bodyCallers = [c \in Callers |-> IdleBodyCaller]
  /\ stored = [id \in BodyIds |-> NoEntry]
  \* started without REDIS_URL: initRedisClient returns at once
  /\ redisReady = "none"
  /\ reachable = FALSE
  /\ store = [m \in Modes |-> NoKey]

\* -------------------------------------------- the event loop's order

\* (await getRedisClient()) is the client
Client == redisReady = "client"

\* const backend: CacheBackend = (await getRedisClient()) ? 'redis' : 'memory'
Backend == IF Client THEN "redis" ELSE "memory"

Running(rid) == refreshes[rid].stage \in {"get", "read", "fetch", "write"}
Settled(rid) == refreshes[rid].stage \in {"ok", "rejected"}
Waiters(rid) == {c \in Callers : callers[c].pc = "await" /\ callers[c].awaiting = rid}

\* a continuation is queued: it runs before any timer, request or response
MicrotaskPending ==
  \/ \E c \in Callers : callers[c].pc \in {"read", "caught", "done"}
  \/ \E c \in Callers : callers[c].pc = "backend" /\ redisReady # "pending"
  \/ \E rid \in RefreshIds : refreshes[rid].stage \in {"read", "ok", "rejected"}

\* a timer callback or an upstream response is handled
MacrotaskReady == ~crashed /\ ~MicrotaskPending /\ unhandled = 0

\* no continuation of getBodyEphemeris is waiting to run
BodyLoopIdle ==
  /\ \A c \in Callers : bodyCallers[c].pc \in {"idle", "await"}
  /\ \A o \in Callers : fetches[o].stage \in {"free", "pending"}

\* a request is handled; requests handled in the same turn of the loop have
\* all entered getSnapshot before the first of them resumes
CallReady ==
  /\ ~crashed
  /\ unhandled = 0
  /\ \A c \in Callers : callers[c].pc \in {"idle", "await", "backend", "get", "catch"}
  /\ \A rid \in RefreshIds : refreshes[rid].stage \in {"free", "get", "fetch", "write"}

\* ------------------------------------------------- refreshSnapshot

\* the promise of refreshSnapshot(reason, correlationId, mode), suspended
\* in buildPlanetSnapshot's readCache: at `await client.get(cacheKey)` with
\* a client, in the microtasks before `memoryCache.get(mode)` without; the
\* reason goes to the log and the metrics only
NewRefresh(reason, correlationId, mode) ==
  [stage |-> IF Client THEN "get" ELSE "read", mode |-> mode, corr |-> correlationId,
   cached |-> NoRecord, results |-> <<>>, result |-> NoResult, error |-> "",
   cleared |-> FALSE]

NextRefreshId == CHOOSE rid \in RefreshIds :
  /\ refreshes[rid] = FreeSlot
  /\ \A other \in 1..(rid - 1) : refreshes[other] # FreeSlot

\* mutant: the in-flight map is not consulted
NoneInflightIgnored(mode) == TRUE

\* !inflightByMode.get(mode)
NoneInflight(mode) == inflightByMode[mode] = 0

\* mutant: the modes share one in-flight entry
StartRefreshSharedEntry(reason, correlationId, mode) ==
  /\ \E rid \in RefreshIds : refreshes[rid] = FreeSlot
  /\ refreshes' = [refreshes EXCEPT ![NextRefreshId] =
                     NewRefresh(reason, correlationId, mode)]
  /\ inflightByMode' = [m \in Modes |-> NextRefreshId]

\* setInflight(mode, refreshSnapshot(reason, correlationId, mode))
StartRefresh(reason, correlationId, mode) ==
  /\ \E rid \in RefreshIds : refreshes[rid] = FreeSlot
  /\ refreshes' = [refreshes EXCEPT ![NextRefreshId] =
                     NewRefresh(reason, correlationId, mode)]
  /\ inflightByMode' = [inflightByMode EXCEPT ![mode] = NextRefreshId]

\* the members of the metadata that JSON.stringify writes: one whose value
\* is undefined (no fallback bodies, no missing bodies, no request id) is
\* left out
DefinedMembers(metadata) ==
  {k \in DOMAIN metadata :
     /\ ~(k \in {"fallbackBodies", "missingBodies"} /\ metadata[k] = <<>>)
     /\ ~(k = "requestId" /\ metadata[k] = 0)}

\* JSON.stringify(record)
JSONStringify(record) ==
  [text |-> [record EXCEPT !.payload.metadata =
               [k \in DefinedMembers(record.payload.metadata) |->
                  record.payload.metadata[k]]]]

\* JSON.parse(raw) as CacheRecord: a new object
JSONParse(raw) == raw.text

\* client.set(cacheKey, JSON.stringify(record), { PX: staleUntil - cachedAt })
\* as the server executes it
RedisSet(mode, record) ==
  [store EXCEPT ![mode] =
     [raw |-> JSONStringify(record),
      expiresAt |-> clock + (record.staleUntil - record.cachedAt)]]

\* client.get(cacheKey) resolves with a string: the server answers, and the
\* key is set and has not expired
RedisHolds(mode) ==
  /\ reachable
  /\ store[mode] # NoKey
  /\ clock < store[mode].expiresAt

\* mutant: the parsed record is returned to nobody and memory is left alone
ReadThroughSkipped(mode) == memoryCache

\* readCache after `await client.get(cacheKey)`: memoryCache.set(mode, parsed)
\* if there is a string; on an error or an absent key nothing is set
ReadThrough(mode) ==
  IF RedisHolds(mode)
  THEN [memoryCache EXCEPT ![mode] = JSONParse(store[mode].raw)]
  ELSE memoryCache

\* the record of a refresh suspended in writeCache is the object in
\* memoryCache until readCache sets another
Unaliased(mode) ==
  [rid \in RefreshIds |->
     IF RedisHolds(mode) /\ refreshes[rid].stage = "write" /\ refreshes[rid].mode = mode
     THEN [refreshes[rid] EXCEPT !.result.aliased = FALSE]
     ELSE refreshes[rid]]

\* Redis answers the client.get of buildPlanetSnapshot's readCache, or the
\* command fails; readCache returns
RefreshGet(rid) ==
  /\ MacrotaskReady
  /\ refreshes[rid].stage = "get"
  /\ memoryCache' = ReadThrough(refreshes[rid].mode)
  /\ refreshes' = [Unaliased(refreshes[rid].mode) EXCEPT ![rid].stage = "read"]
  /\ UNCHANGED <<clock, inflightByMode, callers, served, env, bodyVars, catalogVars, redisVars, unhandled, crashed>>

\* buildPlanetSnapshot: const cached = await readCache(mode)
RefreshRead(rid) ==
  /\ ~crashed
  /\ refreshes[rid].stage = "read"
  /\ refreshes' = [refreshes EXCEPT ![rid].cached = readCache(refreshes[rid].mode),
                                    ![rid].stage = "fetch"]
  /\ UNCHANGED <<clock, memoryCache, inflightByMode, callers, served, env, bodyVars, catalogVars, redisVars, unhandled, crashed>>

\* mutant: the stale window is counted from the capture
CacheRecordShortWindow(payload, now) ==
  [payload |-> payload, cachedAt |-> now,
   expiresAt |-> now + CACHE_TTL_MS,
   staleUntil |-> now + STALE_WHILE_REVALIDATE_MS]

\* const record: CacheRecord = { payload, cachedAt: now, ... }
CacheRecord(payload, now) ==
  [payload |-> payload, cachedAt |-> now,
   expiresAt |-> now + CACHE_TTL_MS,
   staleUntil |-> now + CACHE_TTL_MS + STALE_WHILE_REVALIDATE_MS]

\* payload.metadata = { ...payload.metadata, cacheStatus: 'MISS', ... }
MissMetadata(payload, backend, now, correlationId) ==
  [payload EXCEPT !.metadata =
     [cacheStatus |-> "MISS", cacheBackend |-> backend,
      cacheAgeMs |-> 0, cacheExpiresInMs |-> CACHE_TTL_MS,
      cacheStale |-> FALSE, generatedAt |-> now,
      requestId |-> correlationId] @@ @]

\* refreshSnapshot from the return of buildPlanetSnapshot to its own return,
\* or with a client to `await client.set(...)` in writeCache.
\* record.payload and the returned payload are one object, so the metadata
\* assigned after writeCache is the metadata of the stored payload too.
RefreshSettle(rid, results) ==
  LET r == refreshes[rid]
      built == buildPlanetSnapshot(r.cached, results)
  IN
  IF built.threw
  THEN /\ refreshes' = [refreshes EXCEPT ![rid].results = results,
                                         ![rid].stage = "rejected",
                                         ![rid].error = built.message]
       /\ UNCHANGED memoryCache
  ELSE IF Client
  THEN LET record == CacheRecord(built.payload, clock)
       IN /\ memoryCache' = [memoryCache EXCEPT ![r.mode] = record]
          /\ refreshes' = [refreshes EXCEPT ![rid].results = results,
                             ![rid].stage = "write",
                             ![rid].result = [kind |-> "writing", record |-> record,
                                              aliased |-> TRUE]]
  ELSE LET now == clock
           payload == MissMetadata(built.payload, "memory", now, r.corr)
           record == CacheRecord(payload, now)
       IN /\ memoryCache' = [memoryCache EXCEPT ![r.mode] = record]
          /\ refreshes' = [refreshes EXCEPT ![rid].results = results,
                             ![rid].stage = "ok",
                             ![rid].result = [kind |-> "ok", payload |-> payload,
                                              cacheState |-> "MISS",
                                              cacheBackend |-> "memory",
                                              cacheAgeMs |-> 0]]

\* mutant: the loop ends at the first fetch that fails
FetchSettleAbort(rid, ok) ==
  /\ MacrotaskReady
  /\ refreshes[rid].stage = "fetch"
  /\ LET r == refreshes[rid]
         res == IF ok THEN [status |-> "fulfilled", value |-> clock]
                      ELSE [status |-> "rejected", value |-> 0]
         results == Append(r.results, res)
     IN IF ok /\ Len(results) < NumPlanets
        THEN /\ refreshes' = [refreshes EXCEPT ![rid].results = results]
             /\ UNCHANGED memoryCache
        ELSE RefreshSettle(rid, results)
  /\ UNCHANGED <<clock, inflightByMode, callers, served, env, bodyVars, catalogVars, redisVars, unhandled, crashed>>

\* one fetchPlanetStateVector of the loop settles; the response holds the
\* body's state at the time of the request.  After the last one the snapshot
\* is built and the refresh settles.
FetchSettle(rid, ok) ==
  /\ MacrotaskReady
  /\ refreshes[rid].stage = "fetch"
  /\ LET r == refreshes[rid]
         res == IF ok THEN [status |-> "fulfilled", value |-> clock]
                      ELSE [status |-> "rejected", value |-> 0]
         results == Append(r.results, res)
     IN IF Len(results) < NumPlanets
        THEN /\ refreshes' = [refreshes EXCEPT ![rid].results = results]
             /\ UNCHANGED memoryCache
        ELSE RefreshSettle(rid, results)
  /\ UNCHANGED <<clock, inflightByMode, callers, served, env, bodyVars, catalogVars, redisVars, unhandled, crashed>>

\* mutant: the error of client.set is not caught and rejects the refresh
RefreshWrittenThrows(rid) ==
  /\ MacrotaskReady
  /\ refreshes[rid].stage = "write"
  /\ LET r == refreshes[rid]
         record == r.result.record
         payload == MissMetadata(record.payload, "redis", record.cachedAt, r.corr)
     IN IF reachable
        THEN /\ store' = RedisSet(r.mode, record)
             /\ memoryCache' = IF r.result.aliased
                               THEN [memoryCache EXCEPT ![r.mode] =
                                       [record EXCEPT !.payload = payload]]
                               ELSE memoryCache
             /\ refreshes' = [refreshes EXCEPT ![rid].stage = "ok",
                                ![rid].result = [kind |-> "ok", payload |-> payload,
                                                 cacheState |-> "MISS",
                                                 cacheBackend |-> "redis",
                                                 cacheAgeMs |-> 0]]
        ELSE /\ refreshes' = [refreshes EXCEPT ![rid].stage = "rejected",
                                ![rid].result = NoResult,
                                ![rid].error = "redis_write_failed"]
             /\ UNCHANGED <<store, memoryCache>>
  /\ UNCHANGED <<clock, inflightByMode, callers, served, env, bodyVars, catalogVars, redisReady, reachable,
                 unhandled, crashed>>

\* Redis answers the client.set of writeCache, or the command fails and the
\* error is swallowed; refreshSnapshot decorates its payload and returns
RefreshWritten(rid) ==
  /\ MacrotaskReady
  /\ refreshes[rid].stage = "write"
  /\ LET r == refreshes[rid]
         record == r.result.record
         payload == MissMetadata(record.payload, "redis", record.cachedAt, r.corr)
     IN /\ store' = IF reachable THEN RedisSet(r.mode, record) ELSE store
        /\ memoryCache' = IF r.result.aliased
                          THEN [memoryCache EXCEPT ![r.mode] =
                                  [record EXCEPT !.payload = payload]]
                          ELSE memoryCache
        /\ refreshes' = [refreshes EXCEPT ![rid].stage = "ok",
                           ![rid].result = [kind |-> "ok", payload |-> payload,
                                            cacheState |-> "MISS",
                                            cacheBackend |-> "redis",
                                            cacheAgeMs |-> 0]]
  /\ UNCHANGED <<clock, inflightByMode, callers, served, env, bodyVars, catalogVars, redisReady, reachable,
                 unhandled, crashed>>

\* mutant: the callback leaves the map as it is
InflightFinallyKeeps(rid) ==
  /\ ~crashed
  /\ Settled(rid)
  /\ ~refreshes[rid].cleared
  /\ inflightByMode' = inflightByMode
  /\ unhandled' = IF refreshes[rid].stage = "rejected" THEN unhandled + 1 ELSE unhandled
  /\ refreshes' = [refreshes EXCEPT ![rid] =
                     IF Waiters(rid) = {} THEN FreeSlot ELSE [@ EXCEPT !.cleared = TRUE]]
  /\ UNCHANGED <<clock, memoryCache, callers, served, env, bodyVars, catalogVars, redisVars, crashed>>

\* the callback setInflight registers with promise.finally: the first
\* reaction of the settled promise.  The promise that finally returns rejects
\* when the refresh did, and nothing handles it.
InflightFinally(rid) ==
  /\ ~crashed
  /\ Settled(rid)
  /\ ~refreshes[rid].cleared
  /\ inflightByMode' = [inflightByMode EXCEPT ![refreshes[rid].mode] =
                          IF @ = rid THEN 0 ELSE @]
  /\ unhandled' = IF refreshes[rid].stage = "rejected" THEN unhandled + 1 ELSE unhandled
  /\ refreshes' = [refreshes EXCEPT ![rid] =
                     IF Waiters(rid) = {} THEN FreeSlot ELSE [@ EXCEPT !.cleared = TRUE]]
  /\ UNCHANGED <<clock, memoryCache, callers, served, env, bodyVars, catalogVars, redisVars, crashed>>

\* ----------------------------------------------------- getSnapshot

\* the modes of the snapshot routes that are requested
ServedModes == IF served = "planets" THEN Modes ELSE {served}

\* handleSnapshotRequest calls getSnapshot, which suspends at
\* `await getRedisClient()`; the request id is the correlation id
Call(c, mode, force) ==
  /\ CallReady
  /\ mode \in ServedModes
  /\ callers[c].pc = "idle"
  \* request ids are labels: the next request takes the lowest free one
  /\ \A other \in 1..(c - 1) : callers[other].pc # "idle"
  /\ callers' = [callers EXCEPT ![c].pc = "backend", ![c].mode = mode,
                                ![c].force = force]
  /\ UNCHANGED <<clock, memoryCache, inflightByMode, refreshes, served, env, bodyVars, catalogVars, redisVars, unhandled, crashed>>

\* mutant: a forced call starts a refresh of its own
JoinOrStartForced(c, now) ==
  LET mode == callers[c].mode IN
  IF NoneInflight(mode) \/ callers[c].force
  THEN /\ StartRefresh("manual-refresh", c, mode)
       /\ callers' = [callers EXCEPT ![c].pc = "await", ![c].now = now,
                                     ![c].awaiting = NextRefreshId]
  ELSE /\ callers' = [callers EXCEPT ![c].pc = "await", ![c].now = now,
                                     ![c].awaiting = inflightByMode[mode]]
       /\ UNCHANGED <<refreshes, inflightByMode>>

\* let inflight = inflightByMode.get(mode); if (!inflight) inflight = setInflight(...)
\* and the caller suspends at `await inflight`
JoinOrStart(c, now) ==
  LET mode == callers[c].mode IN
  IF NoneInflight(mode)
  THEN /\ StartRefresh(IF callers[c].force THEN "manual-refresh" ELSE "miss", c, mode)
       /\ callers' = [callers EXCEPT ![c].pc = "await", ![c].now = now,
                                     ![c].awaiting = NextRefreshId]
  ELSE /\ callers' = [callers EXCEPT ![c].pc = "await", ![c].now = now,
                                     ![c].awaiting = inflightByMode[mode]]
       /\ UNCHANGED <<refreshes, inflightByMode>>

\* mutant: a forced call reads the cache like any other
BeginUnforced(c) ==
  /\ ~crashed
  /\ redisReady # "pending"
  /\ callers[c].pc = "backend"
  /\ callers' = [callers EXCEPT ![c].pc = IF Client THEN "get" ELSE "read",
                                ![c].now = clock]
  /\ UNCHANGED <<refreshes, inflightByMode>>
  /\ UNCHANGED <<clock, memoryCache, served, env, bodyVars, catalogVars, redisVars, unhandled, crashed>>

\* redisReady has settled (or is null).  const now = Date.now(); a forced
\* call goes on to the in-flight refresh, any other suspends in readCache: at
\* `await client.get(cacheKey)` with a client, in the microtasks before
\* `memoryCache.get(mode)` without
Begin(c) ==
  /\ ~crashed
  /\ redisReady # "pending"
  /\ callers[c].pc = "backend"
  /\ IF callers[c].force
     THEN JoinOrStart(c, clock)
     ELSE /\ callers' = [callers EXCEPT ![c].pc = IF Client THEN "get" ELSE "read",
                                        ![c].now = clock]
          /\ UNCHANGED <<refreshes, inflightByMode>>
  /\ UNCHANGED <<clock, memoryCache, served, env, bodyVars, catalogVars, redisVars, unhandled, crashed>>

\* Redis answers the client.get of getSnapshot's readCache, or the command
\* fails; readCache returns
CallerGet(c) ==
  /\ MacrotaskReady
  /\ callers[c].pc = "get"
  /\ memoryCache' = ReadThrough(callers[c].mode)
  /\ refreshes' = Unaliased(callers[c].mode)
  /\ callers' = [callers EXCEPT ![c].pc = "read"]
  /\ UNCHANGED <<clock, inflightByMode, served, env, bodyVars, catalogVars, redisVars, unhandled, crashed>>

\* getSnapshot returns and handleSnapshotRequest sends res.json(payload)
Respond(c, result) ==
  [callers EXCEPT ![c].pc = "done", ![c].status = 200, ![c].result = result]

\* the HIT / STALE return of getSnapshot
ServeCached(c, cached, cacheAgeMs, isFresh) ==
  LET cacheState == IF isFresh THEN "HIT" ELSE "STALE" IN
  Respond(c, [kind |-> "ok",
              payload |-> decoratePayloadMetadata(cached.payload, cacheState,
                            Backend, cacheAgeMs, c, clock),
              cacheState |-> cacheState,
              cacheBackend |-> Backend,
              cacheAgeMs |-> cacheAgeMs])

\* mutant: a record of age TTL still counts as fresh
IsFreshInclusive(cacheAgeMs) == cacheAgeMs <= CACHE_TTL_MS

\* const isFresh = cacheAgeMs < CACHE_TTL_MS
IsFresh(cacheAgeMs) == cacheAgeMs < CACHE_TTL_MS

\* mutant: the stale window is counted from the capture, not from the expiry
IsStaleButAllowedFromCapture(cacheAgeMs) ==
  ~IsFresh(cacheAgeMs) /\ cacheAgeMs < STALE_WHILE_REVALIDATE_MS

\* const isStaleButAllowed = !isFresh && cacheAgeMs < CACHE_TTL_MS + STALE_WHILE_REVALIDATE_MS
IsStaleButAllowed(cacheAgeMs) ==
  ~IsFresh(cacheAgeMs) /\ cacheAgeMs < CACHE_TTL_MS + STALE_WHILE_REVALIDATE_MS

\* mutant: every stale serve starts a revalidation
StaleRevalidateEach(mode, isStaleButAllowed) ==
  IF isStaleButAllowed
  THEN StartRefresh("stale-revalidate", 0, mode)
  ELSE UNCHANGED <<refreshes, inflightByMode>>

\* if (isStaleButAllowed && !inflightByMode.get(mode)) setInflight(...)
StaleRevalidate(mode, isStaleButAllowed) ==
  IF isStaleButAllowed /\ NoneInflight(mode)
  THEN StartRefresh("stale-revalidate", 0, mode)
  ELSE UNCHANGED <<refreshes, inflightByMode>>

\* getSnapshot after `await readCache(mode)`
AfterRead(c) ==
  /\ ~crashed
  /\ callers[c].pc = "read"
  /\ LET mode == callers[c].mode
         now == callers[c].now
         cached == readCache(mode)
         cacheAgeMs == now - cached.cachedAt
     IN IF cached # NoRecord /\ (IsFresh(cacheAgeMs) \/ IsStaleButAllowed(cacheAgeMs))
        THEN /\ StaleRevalidate(mode, IsStaleButAllowed(cacheAgeMs))
             /\ callers' = ServeCached(c, cached, cacheAgeMs, IsFresh(cacheAgeMs))
        ELSE JoinOrStart(c, now)
  /\ UNCHANGED <<clock, memoryCache, served, env, bodyVars, catalogVars, redisVars, unhandled, crashed>>

\* the FROZEN return of getSnapshot's catch
ServeFrozen(c, cached, message) ==
  LET cacheAgeMs == callers[c].now - cached.cachedAt
      payload == decoratePayloadMetadata(cached.payload, "FROZEN", Backend,
                                         cacheAgeMs, c, clock)
  IN Respond(c, [kind |-> "ok",
                 payload |-> [payload EXCEPT !.metadata =
                                [cacheStale |-> TRUE, cacheExpiresInMs |-> 0,
                                 frozenSnapshot |-> TRUE, freezeReason |-> message,
                                 requestId |-> c] @@ @],
                 cacheState |-> "FROZEN",
                 cacheBackend |-> Backend,
                 cacheAgeMs |-> cacheAgeMs])

\* the promise is dropped once its last awaiting caller has resumed
Release(c) ==
  LET rid == callers[c].awaiting IN
  [refreshes EXCEPT ![rid] = IF Waiters(rid) = {c} THEN FreeSlot ELSE @]

\* getSnapshot after `await inflight`: the try block, or the catch
Resume(c) ==
  /\ ~crashed
  /\ callers[c].pc = "await"
  /\ Settled(callers[c].awaiting)
  /\ refreshes[callers[c].awaiting].cleared
  /\ LET r == refreshes[callers[c].awaiting]
         cached == IF memoryCache[callers[c].mode] # NoRecord
                   THEN memoryCache[callers[c].mode]
                   ELSE readCache(callers[c].mode)
     IN IF r.stage = "ok"
        THEN callers' = Respond(c,
               [r.result EXCEPT !.payload =
                  decoratePayloadMetadata(r.result.payload, r.result.cacheState,
                    r.result.cacheBackend, r.result.cacheAgeMs, c, clock)])
        ELSE IF cached # NoRecord
        THEN callers' = ServeFrozen(c, cached, r.error)
        \* memoryCache.get(mode) ?? (await readCache(mode)) suspends at client.get
        ELSE IF Client
        THEN callers' = [callers EXCEPT ![c].pc = "catch",
                           ![c].result = [kind |-> "caught", message |-> r.error]]
        \* throw err; handleSnapshotRequest answers res.status(500).json(...)
        ELSE callers' = [callers EXCEPT ![c].pc = "done", ![c].status = 500,
                           ![c].result = [kind |-> "error", message |-> r.error]]
  /\ refreshes' = Release(c)
  /\ UNCHANGED <<clock, memoryCache, inflightByMode, served, env, bodyVars, catalogVars, redisVars, unhandled, crashed>>

\* Redis answers the client.get of the catch block's readCache, or the
\* command fails; readCache returns
CatchGet(c) ==
  /\ MacrotaskReady
  /\ callers[c].pc = "catch"
  /\ memoryCache' = ReadThrough(callers[c].mode)
  /\ refreshes' = Unaliased(callers[c].mode)
  /\ callers' = [callers EXCEPT ![c].pc = "caught"]
  /\ UNCHANGED <<clock, inflightByMode, served, env, bodyVars, catalogVars, redisVars, unhandled, crashed>>

\* the catch block after `await readCache(mode)`
AfterCatch(c) ==
  /\ ~crashed
  /\ callers[c].pc = "caught"
  /\ LET cached == readCache(callers[c].mode)
         message == callers[c].result.message
     IN IF cached # NoRecord
        THEN callers' = ServeFrozen(c, cached, message)
        ELSE callers' = [callers EXCEPT ![c].pc = "done", ![c].status = 500,
                           ![c].result = [kind |-> "error", message |-> message]]
  /\ UNCHANGED <<clock, memoryCache, inflightByMode, refreshes, served, env, bodyVars, catalogVars, redisVars,
                 unhandled, crashed>>

\* the request is over
Close(c) ==
  /\ ~crashed
  /\ callers[c].pc = "done"
  /\ callers' = [callers EXCEPT ![c] = IdleCaller]
  /\ UNCHANGED <<clock, memoryCache, inflightByMode, refreshes, served, env, bodyVars, catalogVars, redisVars, unhandled, crashed>>

\* ------------------------------------------------- timers and process

\* Number(process.env.CACHE_WARM_INTERVAL_MS ?? ...): a finite number, or not
NumberOf(v) == [finite |-> TRUE, value |-> v]
NotANumber == [finite |-> FALSE, value |-> 0]

\* PREWARM_INTERVAL_MS: CACHE_WARM_INTERVAL_MS is 60000 (one unit) where
\* /planets is served, 0 where /planets/full is, and not a number ("off")
\* where /body/:id is
PREWARM_INTERVAL_MS ==
  CASE served = "state-vectors" -> NumberOf(1)
    [] served = "full" -> NumberOf(0)
    [] OTHER -> NotANumber

\* the condition under which setInterval is called at all
PrewarmScheduled ==
  /\ CACHE_TTL_MS > 0
  /\ PREWARM_INTERVAL_MS.value > 0
  /\ PREWARM_INTERVAL_MS.finite

\* mutant: the tick does not look at the in-flight map
PrewarmTickUnchecked ==
  /\ MacrotaskReady
  /\ PrewarmScheduled
  /\ StartRefresh("background-prewarm", 0, "state-vectors")
  /\ UNCHANGED <<clock, memoryCache, callers, served, env, bodyVars, catalogVars, redisVars, unhandled, crashed>>

\* the setInterval callback of the prewarm loop
PrewarmTick ==
  /\ MacrotaskReady
  /\ PrewarmScheduled
  /\ NoneInflight("state-vectors")
  /\ StartRefresh("background-prewarm", 0, "state-vectors")
  /\ UNCHANGED <<clock, memoryCache, callers, served, env, bodyVars, catalogVars, redisVars, unhandled, crashed>>

\* 60 s pass; the responses of one fetch loop arrive within one unit, and
\* so does the answer to a Redis command
Tick ==
  /\ MacrotaskReady
  /\ BodyLoopIdle
  /\ \A rid \in RefreshIds :
       refreshes[rid].stage = "fetch" => refreshes[rid].results = <<>>
  /\ \A rid \in RefreshIds : refreshes[rid].stage \notin {"get", "write"}
  /\ \A c \in Callers : callers[c].pc \notin {"get", "catch"}
  /\ clock < MaxClock
  /\ clock' = clock + 1
  /\ UNCHANGED <<memoryCache, inflightByMode, refreshes, callers, served, env, bodyVars, catalogVars, redisVars,
                 unhandled, crashed>>

\* Node ends the process on a rejection that nothing handles (its default
\* since version 15) ...
UnhandledCrash ==
  /\ ~crashed
  /\ ~MicrotaskPending
  /\ unhandled > 0
  /\ crashed' = TRUE
  /\ UNCHANGED <<clock, memoryCache, inflightByMode, refreshes, callers, served, env, bodyVars, catalogVars, redisVars, unhandled>>

\* ... or only warns (older versions, --unhandled-rejections=warn)
UnhandledWarn ==
  /\ ~crashed
  /\ ~MicrotaskPending
  /\ unhandled > 0
  /\ unhandled' = 0
  /\ UNCHANGED <<clock, memoryCache, inflightByMode, refreshes, callers, served, env, bodyVars, catalogVars, redisVars, crashed>>

\* ------------------------------------------------- getBodyEphemeris

snapshotVars == <<memoryCache, inflightByMode, refreshes, callers, served, env, unhandled, crashed,
                  redisReady, reachable, store>>

\* getFromCache(id): the entry, unless it is absent or has expired
getFromCache(id, now) ==
  IF cache[id] # NoEntry /\ now < cache[id].expiresAt THEN cache[id] ELSE NoEntry

\* getFromCache(id) deletes the entry it finds expired
CacheAfterGet(id, now) ==
  IF cache[id] # NoEntry /\ now >= cache[id].expiresAt
  THEN [cache EXCEPT ![id] = NoEntry]
  ELSE cache

\* the payload fetchFresh builds from the upstream vector
fetchFresh(id, correlationId, started, value, dateNow) ==
  [id |-> id, data |-> value,
   metadata |-> [responseTimeMs |-> dateNow - started, requestId |-> correlationId]]

\* mutant: the age is reported as the time left
HitPayloadTimeLeft(cached, now, correlationId) ==
  [cached.payload EXCEPT !.metadata =
     [cacheStatus |-> "HIT", cacheAgeMs |-> cached.expiresAt - now,
      cacheExpiresInMs |-> Max(0, cached.expiresAt - now),
      requestId |-> correlationId] @@ cached.payload.metadata]

\* { ...cached.payload, metadata: { ..., cacheStatus: 'HIT', ... } }
HitPayload(cached, now, correlationId) ==
  [cached.payload EXCEPT !.metadata =
     [cacheStatus |-> "HIT", cacheAgeMs |-> now - cached.cachedAt,
      cacheExpiresInMs |-> Max(0, cached.expiresAt - now),
      requestId |-> correlationId] @@ cached.payload.metadata]

\* { ...payload, metadata: { ..., cacheStatus: 'MISS', ... } }
MissPayload(payload) ==
  [payload EXCEPT !.metadata =
     [cacheStatus |-> "MISS", cacheAgeMs |-> 0,
      cacheExpiresInMs |-> BODY_CACHE_TTL_MS] @@ payload.metadata]

\* { ...cached.payload, metadata: { ..., cacheStatus: 'FROZEN', ... } }
FrozenPayload(cached, now, correlationId, message) ==
  [cached.payload EXCEPT !.metadata =
     [cacheStatus |-> "FROZEN", cacheAgeMs |-> now - cached.cachedAt,
      cacheExpiresInMs |-> 0, frozenSnapshot |-> TRUE, freezeReason |-> message,
      requestId |-> correlationId] @@ cached.payload.metadata]

\* { payload, cachedAt: Date.now(), expiresAt: Date.now() + BODY_CACHE_TTL_MS }
CacheEntry(payload, dateNow) ==
  [payload |-> payload, cachedAt |-> dateNow, expiresAt |-> dateNow + BODY_CACHE_TTL_MS]

BodyWaiters(o) ==
  {c \in Callers : bodyCallers[c].pc = "await" /\ bodyCallers[c].awaiting = o}

\* mutant: the map of fetches in flight is not consulted
ExistingIgnored(id) == 0

\* const existing = inflight.get(id)
Existing(id) == inflight[id]

\* GET /body/:id with a catalogued id: getBodyEphemeris up to its first await
BodyCall(c, id, force) ==
  /\ ~crashed
  /\ served = "body"
  /\ BodyLoopIdle
  /\ bodyCallers[c].pc = "idle"
  \* request ids are labels: the next request takes the lowest free one
  /\ \A other \in 1..(c - 1) : bodyCallers[other].pc # "idle"
  /\ LET now == clock
         cached == IF force THEN NoEntry ELSE getFromCache(id, now)
         me == [bodyCallers[c] EXCEPT !.id = id, !.force = force, !.now = now]
     IN IF cached # NoEntry
        THEN /\ bodyCallers' = [bodyCallers EXCEPT ![c] =
                  [me EXCEPT !.pc = "done", !.status = 200,
                             !.result = [kind |-> "ok",
                                         payload |-> HitPayload(cached, now, c)]]]
             /\ UNCHANGED <<cache, inflight, fetches>>
        ELSE /\ cache' = IF force THEN cache ELSE CacheAfterGet(id, now)
             /\ IF Existing(id) # 0
                THEN /\ bodyCallers' = [bodyCallers EXCEPT ![c] =
                          [me EXCEPT !.pc = "await", !.awaiting = Existing(id)]]
                     /\ UNCHANGED <<inflight, fetches>>
                ELSE /\ fetches' = [fetches EXCEPT ![c] =
                          [stage |-> "pending", id |-> id, corr |-> c, started |-> clock]]
                     /\ inflight' = [inflight EXCEPT ![id] = c]
                     /\ bodyCallers' = [bodyCallers EXCEPT ![c] =
                          [me EXCEPT !.pc = "await", !.awaiting = c]]
  /\ UNCHANGED <<clock, stored, snapshotVars, catalogVars>>

\* ids a client may put in the path: the catalogue and one id outside it
\* (Express does not route an empty id to the handler, so `!id` is not drawn)
UnknownIds == {NumBodies + 1}
RequestedIds == BodyIds \cup UnknownIds

\* mutant: the route lets the unknown id through and answers what
\* fetchFresh throws for it
UnknownBodyThrown(me, id) ==
  [me EXCEPT !.pc = "done", !.id = id, !.status = 500,
             !.result = [kind |-> "error", message |-> "Corps inconnu"]]

\* res.status(404).json({ error: 'Unknown body id' }); return
UnknownBody(me, id) ==
  [me EXCEPT !.pc = "done", !.id = id, !.status = 404,
             !.result = [kind |-> "error", message |-> "Unknown body id"]]

\* GET /body/:id: the handler up to its first await
BodyRequest(c, id, req) ==
  IF id \in BodyIds
  THEN BodyCall(c, id, parseForceRefresh(req))
  ELSE /\ ~crashed
       /\ served = "body"
       /\ BodyLoopIdle
       /\ bodyCallers[c].pc = "idle"
       /\ \A other \in 1..(c - 1) : bodyCallers[other].pc # "idle"
       /\ bodyCallers' = [bodyCallers EXCEPT ![c] =
            UnknownBody(bodyCallers[c], id)]
       /\ UNCHANGED <<clock, cache, inflight, fetches, stored, snapshotVars, catalogVars>>

\* the upstream answers the fetch of request o: the then / catch / finally
\* chain of its promise runs (cache.set on success, inflight.delete always)
BodyFetchSettle(o, ok) ==
  /\ ~crashed
  /\ BodyLoopIdle
  /\ fetches[o].stage = "pending"
  /\ LET f == fetches[o] IN
     /\ IF ok
        THEN LET payload == fetchFresh(f.id, f.corr, f.started, clock, clock) IN
             /\ cache' = [cache EXCEPT ![f.id] = CacheEntry(payload, clock)]
             /\ stored' = [stored EXCEPT ![f.id] = cache'[f.id]]
             /\ fetches' = [fetches EXCEPT ![o] =
                  [stage |-> "ok", id |-> f.id, payload |-> payload]]
        ELSE /\ UNCHANGED <<cache, stored>>
             /\ fetches' = [fetches EXCEPT ![o] =
                  [stage |-> "rejected", id |-> f.id, error |-> "Horizons unavailable"]]
     /\ inflight' = [inflight EXCEPT ![f.id] = 0]
  /\ UNCHANGED <<clock, bodyCallers, snapshotVars, catalogVars>>

\* a request resumes from `await existing` (no handler around it) or from
\* `await p` (inside try / catch); the route answers 500 to what is thrown
BodyResume(c) ==
  /\ ~crashed
  /\ bodyCallers[c].pc = "await"
  /\ fetches[bodyCallers[c].awaiting].stage \in {"ok", "rejected"}
  /\ LET me == bodyCallers[c]
         f == fetches[me.awaiting]
         owner == me.awaiting = c
         cached == cache[me.id]
     IN /\ bodyCallers' = [bodyCallers EXCEPT ![c] =
             IF f.stage = "ok"
             THEN [me EXCEPT !.pc = "done", !.status = 200,
                             !.result = [kind |-> "ok", payload |-> MissPayload(f.payload)]]
             ELSE IF owner /\ cached # NoEntry
             THEN [me EXCEPT !.pc = "done", !.status = 200,
                             !.result = [kind |-> "ok",
                                         payload |-> FrozenPayload(cached, me.now, c, f.error)]]
             ELSE [me EXCEPT !.pc = "done", !.status = 500,
                             !.result = [kind |-> "error", message |-> f.error]]]
        /\ fetches' = IF BodyWaiters(me.awaiting) = {c}
                      THEN [fetches EXCEPT ![me.awaiting] = FreeSlot]
                      ELSE fetches
  /\ UNCHANGED <<clock, cache, inflight, stored, snapshotVars, catalogVars>>

\* res.json(...) has been written
BodyClose(c) ==
  /\ ~crashed
  /\ bodyCallers[c].pc = "done"
  /\ bodyCallers' = [bodyCallers EXCEPT ![c] = IdleBodyCaller]
  /\ UNCHANGED <<clock, cache, inflight, fetches, stored, snapshotVars, catalogVars>>

Next ==
  \/ \E c \in Callers, mode \in Modes, req \in RequestClasses :
       Call(c, mode, parseForceRefresh(req))
  \/ \E c \in Callers : Begin(c)
  \/ \E c \in Callers : AfterRead(c)
  \/ \E c \in Callers : Resume(c)
  \/ \E c \in Callers : Close(c)
  \/ \E rid \in RefreshIds : RefreshRead(rid)
  \/ \E rid \in RefreshIds, ok \in BOOLEAN : FetchSettle(rid, ok)
  \/ \E rid \in RefreshIds : InflightFinally(rid)
  \/ PrewarmTick
  \/ Tick
  \/ UnhandledCrash
  \/ UnhandledWarn
  \/ \E c \in Callers, id \in RequestedIds, req \in RequestClasses :
       BodyRequest(c, id, req)
  \/ \E o \in Callers, ok \in BOOLEAN : BodyFetchSettle(o, ok)
  \/ \E c \in Callers : BodyResume(c)
  \/ \E c \in Callers : BodyClose(c)

Spec == Init /\ [][Next]_vars

\* ------------------------------------------ one snapshot route alone

\* the steps of handleSnapshotRequest, getSnapshot and refreshSnapshot
SnapshotSteps ==
  \/ \E c \in Callers, mode \in Modes, req \in RequestClasses :
       Call(c, mode, parseForceRefresh(req))
  \/ \E c \in Callers : Begin(c)
  \/ \E c \in Callers : AfterRead(c)
  \/ \E c \in Callers : Resume(c)
  \/ \E c \in Callers : Close(c)
  \/ \E rid \in RefreshIds : RefreshRead(rid)
  \/ \E rid \in RefreshIds, ok \in BOOLEAN : FetchSettle(rid, ok)
  \/ \E rid \in RefreshIds : InflightFinally(rid)

\* /planets/full is requested and CACHE_WARM_INTERVAL_MS is 0: setInterval
\* is never called
InitFull == Init /\ served = "full"

NextFull ==
  \/ SnapshotSteps
  \/ Tick
  \/ UnhandledCrash
  \/ UnhandledWarn

SpecFull == InitFull /\ [][NextFull]_vars

\* ------------------------------------- the process with CACHE_TTL_MS=0

\* the settings with caching switched off: CACHE_TTL_MS=0, BODY_CACHE_TTL_MS
\* not set, and CACHE_STALE_MS not set (a window of 0) or 60 000 ms
NoTtlEnvs ==
  { [UsualEnv EXCEPT !.CACHE_TTL_MS = Set(0), !.CACHE_STALE_MS = stale,
                     !.BODY_CACHE_TTL_MS = Unset] :
      stale \in {Unset, Set(1)} }

InitNoTtl ==
  /\ clock = 0
  /\ InitCatalog
  /\ memoryCache = [m \in Modes |-> NoRecord]
  /\ inflightByMode = [m \in Modes |-> 0]
  /\ refreshes = [rid \in RefreshIds |-> FreeSlot]
  /\ callers = [c \in Callers |-> IdleCaller]
  /\ served \in {"state-vectors", "body"}
  /\ env \in NoTtlEnvs
  /\ unhandled = 0
  /\ crashed = FALSE
  /\ cache = [id \in BodyIds |-> NoEntry]
  /\ inflight = [id \in BodyIds |-> 0]
  /\ fetches = [c \in Callers |-> FreeSlot]
  /\ bodyCallers = [c \in Callers |-> IdleBodyCaller]
  /\ stored = [id \in BodyIds |-> NoEntry]
  /\ redisReady = "none"
  /\ reachable = FALSE
  /\ store = [m \in Modes |-> NoKey]

\* the router up to the horizon ModesClock; prewarm() returns before
\* setInterval when CACHE_TTL_MS <= 0
NextNoTtl ==
  \/ \E c \in Callers, mode \in Modes, req \in RequestClasses :
       Call(c, mode, parseForceRefresh(req))
  \/ \E c \in Callers : Begin(c)
  \/ \E c \in Callers : AfterRead(c)
  \/ \E c \in Callers : Resume(c)
  \/ \E c \in Callers : Close(c)
  \/ \E rid \in RefreshIds : RefreshRead(rid)
  \/ \E rid \in RefreshIds, ok \in BOOLEAN : FetchSettle(rid, ok)
  \/ \E rid \in RefreshIds : InflightFinally(rid)
  \/ (clock < ModesClock /\ Tick)
  \/ UnhandledCrash
  \/ UnhandledWarn
  \/ \E c \in Callers, id \in RequestedIds, req \in RequestClasses :
       BodyRequest(c, id, req)
  \/ \E o \in Callers, ok \in BOOLEAN : BodyFetchSettle(o, ok)
  \/ \E c \in Callers : BodyResume(c)
  \/ \E c \in Callers : BodyClose(c)

SpecNoTtl == InitNoTtl /\ [][NextNoTtl]_vars

\* ---------------------------------------------- the process with Redis

\* a record another instance of the server wrote to Redis as this one starts
PreviousRecord ==
  CacheRecord([bodies |-> [i \in PLANETS |-> [name |-> i, data |-> 0]],
               metadata |-> [partial |-> FALSE, fallbackBodies |-> <<>>,
                             missingBodies |-> <<>>]], 0)

\* started with REDIS_URL: initRedisClient has called connect(); the
\* requests are on /planets/full and the prewarm loop is configured off
InitRedis ==
  /\ clock = 0
  /\ InitCatalog
  /\ memoryCache = [m \in Modes |-> NoRecord]
  /\ inflightByMode = [m \in Modes |-> 0]
  /\ refreshes = [rid \in RefreshIds |-> FreeSlot]
  /\ callers = [c \in Callers |-> IdleCaller]
  /\ served = "full"
  /\ env = UsualEnv
  /\ unhandled = 0
  /\ crashed = FALSE
  /\ cache = [id \in BodyIds |-> NoEntry]
  /\ inflight = [id \in BodyIds |-> 0]
  /\ fetches = [c \in Callers |-> FreeSlot]
  /\ bodyCallers = [c \in Callers |-> IdleBodyCaller]
  /\ stored = [id \in BodyIds |-> NoEntry]
  /\ redisReady = "pending"
  /\ reachable \in BOOLEAN
  /\ \E previous \in {NoKey, [raw |-> JSONStringify(PreviousRecord),
                                expiresAt |-> PreviousRecord.staleUntil]} :
       store = [m \in Modes |-> IF m = "full" THEN previous ELSE NoKey]

\* redisClient.connect() settles: .then returns the client, .catch returns null
RedisConnect ==
  /\ MacrotaskReady
  /\ redisReady = "pending"
  /\ redisReady' = IF reachable THEN "client" ELSE "null"
  /\ UNCHANGED <<clock, memoryCache, inflightByMode, refreshes, callers, served, env, bodyVars, catalogVars,
                 reachable, store, unhandled, crashed>>

\* the Redis server, or the network to it, goes down or comes back
RedisToggle ==
  /\ MacrotaskReady
  /\ reachable' = ~reachable
  /\ UNCHANGED <<clock, memoryCache, inflightByMode, refreshes, callers, served, env, bodyVars, catalogVars,
                 redisReady, store, unhandled, crashed>>

NextRedis ==
  \/ \E c \in SoloCallers, mode \in Modes, req \in RequestClasses :
       Call(c, mode, parseForceRefresh(req))
  \/ \E c \in SoloCallers : Begin(c)
  \/ \E c \in SoloCallers : CallerGet(c)
  \/ \E c \in SoloCallers : AfterRead(c)
  \/ \E c \in SoloCallers : Resume(c)
  \/ \E c \in SoloCallers : CatchGet(c)
  \/ \E c \in SoloCallers : AfterCatch(c)
  \/ \E c \in SoloCallers : Close(c)
  \/ \E rid \in RefreshIds : RefreshGet(rid)
  \/ \E rid \in RefreshIds : RefreshRead(rid)
  \/ \E rid \in RefreshIds, ok \in BOOLEAN : FetchSettle(rid, ok)
  \/ \E rid \in RefreshIds : RefreshWritten(rid)
  \/ \E rid \in RefreshIds : InflightFinally(rid)
  \/ RedisConnect
  \/ RedisToggle
  \/ Tick
  \/ UnhandledCrash
  \/ UnhandledWarn

SpecRedis == InitRedis /\ [][NextRedis]_vars

\* a queued continuation, or what Node does about an unhandled rejection
Continuation ==
  \/ \E c \in SoloCallers : Begin(c) \/ AfterRead(c) \/ Resume(c) \/ AfterCatch(c) \/ Close(c)
  \/ \E rid \in RefreshIds : RefreshRead(rid) \/ InflightFinally(rid)
  \/ UnhandledCrash
  \/ UnhandledWarn

\* the answer of Redis to a command of a refresh, or of the upstream to a
\* fetch
Response ==
  \E rid \in RefreshIds :
    \/ RefreshGet(rid)
    \/ \E ok \in BOOLEAN : FetchSettle(rid, ok)
    \/ RefreshWritten(rid)

\* what the event loop and the servers guarantee: the continuations queued
\* are run, Redis answers a command or fails it, and the upstream answers
\* every fetch it is sent
Progress == WF_vars(Continuation) /\ SF_vars(Response)

\* the requests that do not ask for a refresh
Unforced == {req \in RequestClasses : ~parseForceRefresh(req)}

\* the process with Redis where no request asks for a refresh: a refresh is
\* started by a request that finds no usable record, or by a stale serve
NextRevalidate ==
  \/ \E c \in SoloCallers, mode \in Modes, req \in Unforced :
       Call(c, mode, parseForceRefresh(req))
  \/ \E c \in SoloCallers : Begin(c)
  \/ \E c \in SoloCallers : CallerGet(c)
  \/ \E c \in SoloCallers : AfterRead(c)
  \/ \E c \in SoloCallers : Resume(c)
  \/ \E c \in SoloCallers : CatchGet(c)
  \/ \E c \in SoloCallers : AfterCatch(c)
  \/ \E c \in SoloCallers : Close(c)
  \/ \E rid \in RefreshIds : RefreshGet(rid)
  \/ \E rid \in RefreshIds : RefreshRead(rid)
  \/ \E rid \in RefreshIds, ok \in BOOLEAN : FetchSettle(rid, ok)
  \/ \E rid \in RefreshIds : RefreshWritten(rid)
  \/ \E rid \in RefreshIds : InflightFinally(rid)
  \/ RedisConnect
  \/ RedisToggle
  \/ Tick
  \/ UnhandledCrash
  \/ UnhandledWarn

SpecRevalidate == InitRedis /\ [][NextRevalidate]_vars /\ Progress

\* 60 s pass while a request waits for the answer to its client.get: the
\* command has no timeout, and the client queues it while it reconnects
TickDuringGet ==
  /\ MacrotaskReady
  /\ BodyLoopIdle
  /\ \A rid \in RefreshIds :
       refreshes[rid].stage = "fetch" => refreshes[rid].results = <<>>
  /\ \A rid \in RefreshIds : refreshes[rid].stage \notin {"get", "write"}
  /\ \E c \in Callers : callers[c].pc = "get"
  /\ \A c \in Callers : callers[c].pc # "catch"
  /\ clock < MaxClock
  /\ clock' = clock + 1
  /\ UNCHANGED <<memoryCache, inflightByMode, refreshes, callers, served, env, bodyVars, catalogVars, redisVars,
                 unhandled, crashed>>

\* the process with Redis, no request asking for a refresh, where Redis may
\* take its time over a request's client.get
NextSlowGet ==
  \/ NextRevalidate
  \/ TickDuringGet

SpecSlowGet == InitRedis /\ [][NextSlowGet]_vars

\* -------------------------------------- the process whose servers answer

\* the process started with REDIS_URL and serving /planets/full, or started
\* without it and serving /body/:id
InitSettles ==
  /\ clock = 0
  /\ InitCatalog
  /\ memoryCache = [m \in Modes |-> NoRecord]
  /\ inflightByMode = [m \in Modes |-> 0]
  /\ refreshes = [rid \in RefreshIds |-> FreeSlot]
  /\ callers = [c \in Callers |-> IdleCaller]
  /\ served \in {"full", "body"}
  /\ env = UsualEnv
  /\ unhandled = 0
  /\ crashed = FALSE
  /\ cache = [id \in BodyIds |-> NoEntry]
  /\ inflight = [id \in BodyIds |-> 0]
  /\ fetches = [c \in Callers |-> FreeSlot]
  /\ bodyCallers = [c \in Callers |-> IdleBodyCaller]
  /\ stored = [id \in BodyIds |-> NoEntry]
  /\ IF served = "full"
     THEN /\ redisReady = "pending"
          /\ reachable \in BOOLEAN
          /\ \E previous \in {NoKey, [raw |-> JSONStringify(PreviousRecord),
                                        expiresAt |-> PreviousRecord.staleUntil]} :
               store = [m \in Modes |-> IF m = "full" THEN previous ELSE NoKey]
     ELSE /\ redisReady = "none"
          /\ reachable = FALSE
          /\ store = [m \in Modes |-> NoKey]

\* the snapshot route with one request at a time, and the body route, no
\* request asking for a refresh, up to the horizon ModesClock
NextSettles ==
  \/ \E c \in SoloCallers, mode \in Modes, req \in Unforced :
       Call(c, mode, parseForceRefresh(req))
  \/ \E c \in SoloCallers : Begin(c)
  \/ \E c \in SoloCallers : CallerGet(c)
  \/ \E c \in SoloCallers : AfterRead(c)
  \/ \E c \in SoloCallers : Resume(c)
  \/ \E c \in SoloCallers : CatchGet(c)
  \/ \E c \in SoloCallers : AfterCatch(c)
  \/ \E c \in SoloCallers : Close(c)
  \/ \E rid \in RefreshIds : RefreshGet(rid)
  \/ \E rid \in RefreshIds : RefreshRead(rid)
  \/ \E rid \in RefreshIds, ok \in BOOLEAN : FetchSettle(rid, ok)
  \/ \E rid \in RefreshIds : RefreshWritten(rid)
  \/ \E rid \in RefreshIds : InflightFinally(rid)
  \/ RedisConnect
  \/ (redisReady # "none" /\ RedisToggle)
  \/ (clock < ModesClock /\ Tick)
  \/ UnhandledCrash
  \/ UnhandledWarn
  \/ \E c \in Callers, id \in RequestedIds, req \in Unforced :
       BodyRequest(c, id, req)
  \/ \E o \in Callers, ok \in BOOLEAN : BodyFetchSettle(o, ok)
  \/ \E c \in Callers : BodyResume(c)
  \/ \E c \in Callers : BodyClose(c)

\* a queued continuation of either route
Continues ==
  \/ Continuation
  \/ \E c \in Callers : BodyResume(c) \/ BodyClose(c)

\* Redis settles connect(), or the client.get of the request
Settles ==
  \/ RedisConnect
  \/ \E c \in SoloCallers : CallerGet(c) \/ CatchGet(c)

\* the upstream settles the fetch request o started
BodySettles(o) == \E ok \in BOOLEAN : BodyFetchSettle(o, ok)

\* every continuation queued is run, and every fetch and every Redis
\* operation eventually settles: those of the refresh in flight (Response),
\* those of the request, and each fetch of the body route
EverySettles ==
  /\ WF_vars(Continues)
  /\ SF_vars(Response)
  /\ SF_vars(Settles)
  /\ \A o \in Callers : SF_vars(BodySettles(o))

SpecSettles == InitSettles /\ [][NextSettles]_vars /\ EverySettles

\* ------------------------------------------------------ getCatalog

\* normalizeLang on the texts of LangParams: 'fr', 'en' or null
normalizeLang(lang) ==
  CASE lang = "fr" -> "fr"
    [] lang \in {"en", "en-US"} -> "en"
    [] OTHER -> "null"

\* resolveWikiLangs(lang).key
resolveWikiLangs(lang) ==
  IF normalizeLang(lang) # "null" THEN normalizeLang(lang)
  ELSE IF normalizeLang(WIKI_LANG_PRIMARY) # "null" THEN normalizeLang(WIKI_LANG_PRIMARY)
  ELSE "fr"

\* no continuation of getCatalog is waiting to run
CatalogLoopIdle ==
  /\ \A c \in Callers : catalogCallers[c].pc \in {"idle", "await"}
  /\ \A o \in Callers : builds[o].stage \in {"free", "running"}

CatalogWaiters(o) ==
  {c \in Callers : catalogCallers[c].pc = "await" /\ catalogCallers[c].awaiting = o}

\* mutant: a call with forceRefresh starts a build of its own
StartsBuildForced(key, force) == inflightByLang[key] = 0 \/ force

\* if (!inflightByLang.has(cacheKey))
StartsBuild(key, force) == inflightByLang[key] = 0

\* the catalog route calls getCatalog, which returns the cached payload or
\* suspends at `await inflightByLang.get(cacheKey)`
CatalogCall(c, lang, force) ==
  /\ ~crashed
  /\ served = "catalog"
  /\ CatalogLoopIdle
  /\ catalogCallers[c].pc = "idle"
  \* request ids are labels: the next request takes the lowest free one
  /\ \A other \in 1..(c - 1) : catalogCallers[other].pc # "idle"
  /\ LET now == clock
         cacheKey == resolveWikiLangs(lang)
         cached == cacheByLang[cacheKey]
         me == [catalogCallers[c] EXCEPT !.key = cacheKey, !.force = force]
     IN IF ~force /\ cached # NoCatalog /\ now < cached.expiresAt
        THEN /\ catalogCallers' = [catalogCallers EXCEPT ![c] =
                  [me EXCEPT !.pc = "done", !.status = 200,
                             !.result = [kind |-> "ok", payload |-> cached.payload]]]
             /\ UNCHANGED <<builds, inflightByLang>>
        ELSE IF StartsBuild(cacheKey, force)
        THEN /\ builds' = [builds EXCEPT ![c] =
                  [stage |-> "running", key |-> cacheKey, requestId |-> c]]
             /\ inflightByLang' = [inflightByLang EXCEPT ![cacheKey] = c]
             /\ catalogCallers' = [catalogCallers EXCEPT ![c] =
                  [me EXCEPT !.pc = "await", !.awaiting = c]]
        ELSE /\ catalogCallers' = [catalogCallers EXCEPT ![c] =
                  [me EXCEPT !.pc = "await", !.awaiting = inflightByLang[cacheKey]]]
             /\ UNCHANGED <<builds, inflightByLang>>
  /\ UNCHANGED <<clock, cacheByLang, snapshotVars, bodyVars>>

\* the last upstream answer of the build of request o arrives: the async
\* function returns or throws, and its finally callback deletes the entry
CatalogBuildSettle(o, ok) ==
  /\ ~crashed
  /\ CatalogLoopIdle
  /\ builds[o].stage = "running"
  /\ builds' = [builds EXCEPT ![o] =
       IF ok THEN [stage |-> "ok", key |-> builds[o].key,
                   payload |-> [lang |-> builds[o].key, updatedAt |-> clock]]
       ELSE [stage |-> "rejected", key |-> builds[o].key]]
  /\ inflightByLang' = [inflightByLang EXCEPT ![builds[o].key] = 0]
  /\ UNCHANGED <<clock, cacheByLang, catalogCallers, snapshotVars, bodyVars>>

\* a request resumes from `await inflightByLang.get(cacheKey)`: it stores the
\* payload and returns it, or the route answers 500 to what is thrown
CatalogResume(c) ==
  /\ ~crashed
  /\ catalogCallers[c].pc = "await"
  /\ builds[catalogCallers[c].awaiting].stage \in {"ok", "rejected"}
  /\ LET me == catalogCallers[c]
         b == builds[me.awaiting]
     IN /\ IF b.stage = "ok"
           THEN /\ cacheByLang' = [cacheByLang EXCEPT ![me.key] =
                     [payload |-> b.payload, expiresAt |-> clock + CATALOG_CACHE_TTL_MS]]
                /\ catalogCallers' = [catalogCallers EXCEPT ![c] =
                     [me EXCEPT !.pc = "done", !.status = 200,
                                !.result = [kind |-> "ok", payload |-> b.payload]]]
           ELSE /\ UNCHANGED cacheByLang
                /\ catalogCallers' = [catalogCallers EXCEPT ![c] =
                     [me EXCEPT !.pc = "done", !.status = 500,
                                !.result = [kind |-> "error",
                                            message |-> "Erreur lors de la recuperation du catalogue"]]]
        /\ builds' = IF CatalogWaiters(me.awaiting) = {c}
                     THEN [builds EXCEPT ![me.awaiting] = [stage |-> "free"]]
                     ELSE builds
  /\ UNCHANGED <<clock, inflightByLang, snapshotVars, bodyVars>>

\* res.json(...) has been written
CatalogClose(c) ==
  /\ ~crashed
  /\ catalogCallers[c].pc = "done"
  /\ catalogCallers' = [catalogCallers EXCEPT ![c] = IdleCatalogCaller]
  /\ UNCHANGED <<clock, cacheByLang, inflightByLang, builds, snapshotVars, bodyVars>>

\* the process serving the catalog route, started with
\* CATALOG_CACHE_TTL_MS=120000 and WIKI_LANG_PRIMARY not set or 'en'
InitCatalogRoute ==
  /\ clock = 0
  /\ InitCatalog
  /\ memoryCache = [m \in Modes |-> NoRecord]
  /\ inflightByMode = [m \in Modes |-> 0]
  /\ refreshes = [rid \in RefreshIds |-> FreeSlot]
  /\ callers = [c \in Callers |-> IdleCaller]
  /\ served = "catalog"
  /\ \E primary \in {Unset, Set("en")} :
       env = [UsualEnv EXCEPT !.CATALOG_CACHE_TTL_MS = Set(2),
                              !.WIKI_LANG_PRIMARY = primary]
  /\ unhandled = 0
  /\ crashed = FALSE
  /\ cache = [id \in BodyIds |-> NoEntry]
  /\ inflight = [id \in BodyIds |-> 0]
  /\ fetches = [c \in Callers |-> FreeSlot]
  /\ bodyCallers = [c \in Callers |-> IdleBodyCaller]
  /\ stored = [id \in BodyIds |-> NoEntry]
  /\ redisReady = "none"
  /\ reachable = FALSE
  /\ store = [m \in Modes |-> NoKey]

NextCatalog ==
  \/ \E c \in Callers, lang \in LangParams, req \in RequestClasses :
       CatalogCall(c, lang, parseForceRefresh(req))
  \/ \E o \in Callers, ok \in BOOLEAN : CatalogBuildSettle(o, ok)
  \/ \E c \in Callers : CatalogResume(c)
  \/ \E c \in Callers : CatalogClose(c)
  \/ (CatalogLoopIdle /\ Tick)

SpecCatalog == InitCatalogRoute /\ [][NextCatalog]_vars

\* the /body/:id route alone
NextBody ==
  \/ \E c \in Callers, id \in RequestedIds, req \in RequestClasses :
       BodyRequest(c, id, req)
  \/ \E o \in Callers, ok \in BOOLEAN : BodyFetchSettle(o, ok)
  \/ \E c \in Callers : BodyResume(c)
  \/ \E c \in Callers : BodyClose(c)
  \/ Tick

SpecBody == Init /\ [][NextBody]_vars

\* /planets and /planets/full are both requested (served = "planets"), or
\* /body/:id is; the prewarm loop is configured off
InitModes ==
  /\ clock = 0
  /\ InitCatalog
  /\ memoryCache = [m \in Modes |-> NoRecord]
  /\ inflightByMode = [m \in Modes |-> 0]
  /\ refreshes = [rid \in RefreshIds |-> FreeSlot]
  /\ callers = [c \in Callers |-> IdleCaller]
  /\ served \in {"planets", "body"}
  /\ env = UsualEnv
  /\ unhandled = 0
  /\ crashed = FALSE
  /\ cache = [id \in BodyIds |-> NoEntry]
  /\ inflight = [id \in BodyIds |-> 0]
  /\ fetches = [c \in Callers |-> FreeSlot]
  /\ bodyCallers = [c \in Callers |-> IdleBodyCaller]
  /\ stored = [id \in BodyIds |-> NoEntry]
  /\ redisReady = "none"
  /\ reachable = FALSE
  /\ store = [m \in Modes |-> NoKey]

NextModes ==
  \/ \E c \in SoloCallers, mode \in Modes, req \in RequestClasses :
       Call(c, mode, parseForceRefresh(req))
  \/ \E c \in SoloCallers : Begin(c)
  \/ \E c \in SoloCallers : AfterRead(c)
  \/ \E c \in SoloCallers : Resume(c)
  \/ \E c \in SoloCallers : Close(c)
  \/ \E rid \in RefreshIds : RefreshRead(rid)
  \/ \E rid \in RefreshIds, ok \in BOOLEAN : FetchSettle(rid, ok)
  \/ \E rid \in RefreshIds : InflightFinally(rid)
  \/ (clock < ModesClock /\ Tick)
  \/ UnhandledCrash
  \/ UnhandledWarn
  \/ \E c \in Callers, id \in RequestedIds, req \in RequestClasses :
       BodyRequest(c, id, req)
  \/ \E o \in Callers, ok \in BOOLEAN : BodyFetchSettle(o, ok)
  \/ \E c \in Callers : BodyResume(c)
  \/ \E c \in Callers : BodyClose(c)

SpecModes == InitModes /\ [][NextModes]_vars

\* ---------------------------------------------------------------
\* Properties of the snapshot cache
\* ---------------------------------------------------------------

RunningFor(mode) == {rid \in RefreshIds : Running(rid) /\ refreshes[rid].mode = mode}
LiveFor(mode) ==
  {rid \in RefreshIds : refreshes[rid] # FreeSlot /\ refreshes[rid].mode = mode}
UsableAge(age) == age < CACHE_TTL_MS + STALE_WHILE_REVALIDATE_MS

SeenRecord(c) == memoryCache[callers[c].mode]
SeenAge(c) == callers[c].now - SeenRecord(c).cachedAt
AfterReadStep(c) == callers[c].pc = "read" /\ callers'[c].pc # "read"
Served(c, state) ==
  /\ callers[c].pc = "done"
  /\ callers[c].status = 200
  /\ callers[c].result.cacheState = state

\* C2: a forced call that arrives while a refresh of its mode is in flight
\* starts none and waits for that one, so after it exactly one refresh of the
\* mode is in flight; forced callers that waited for the same refresh get the
\* same outcome, the same cacheState and the same bodies.
C2_ForcedJoin ==
  \A c \in Callers :
    callers[c].pc = "backend" /\ callers[c].force /\ callers'[c].pc = "await" =>
      /\ RunningFor(callers[c].mode)' = {callers'[c].awaiting}
      /\ RunningFor(callers[c].mode) # {} => refreshes' = refreshes

C2_SameResult ==
  \A c1, c2 \in Callers :
    ( /\ c1 # c2
      /\ callers[c1].pc = "done" /\ callers[c2].pc = "done"
      /\ callers[c1].force /\ callers[c2].force
      /\ callers[c1].mode = callers[c2].mode
      /\ callers[c1].awaiting = callers[c2].awaiting ) =>
        /\ callers[c1].status = callers[c2].status
        /\ callers[c1].status = 200 =>
             /\ callers[c1].result.cacheState = callers[c2].result.cacheState
             /\ callers[c1].result.payload.bodies = callers[c2].result.payload.bodies

C2_ForcedCoalesce == [](C2_SameResult) /\ [][C2_ForcedJoin]_vars

C2_Witness ==
  \E c1, c2 \in Callers :
    /\ c1 # c2
    /\ Served(c1, "MISS") /\ Served(c2, "MISS")
    /\ callers[c1].force /\ callers[c2].force
    /\ callers[c1].awaiting = callers[c2].awaiting
    /\ callers[c1].result.payload.metadata.requestId
         # callers[c2].result.payload.metadata.requestId

\* C5: a call without forceRefresh that reads a record of age now - cachedAt
\* answers HIT below TTL and STALE from TTL to below TTL + STALE_WINDOW, both
\* with the record's bodies; with an older record or none it waits for the
\* refresh in flight (its own or the one already there), and what it gets
\* after waiting is never HIT or STALE.
C5_Classify ==
  \A c \in Callers : AfterReadStep(c) =>
    LET rec == SeenRecord(c)
        age == SeenAge(c)
    IN /\ rec # NoRecord /\ age < CACHE_TTL_MS =>
            /\ Served(c, "HIT")'
            /\ callers'[c].result.payload.bodies = rec.payload.bodies
            /\ callers'[c].result.cacheAgeMs = age
       /\ rec # NoRecord /\ age >= CACHE_TTL_MS
                         /\ age < CACHE_TTL_MS + STALE_WHILE_REVALIDATE_MS =>
            /\ Served(c, "STALE")'
            /\ callers'[c].result.payload.bodies = rec.payload.bodies
            /\ callers'[c].result.cacheAgeMs = age
       /\ rec = NoRecord \/ age >= CACHE_TTL_MS + STALE_WHILE_REVALIDATE_MS =>
            /\ callers'[c].pc = "await"
            /\ callers'[c].awaiting \in RunningFor(callers[c].mode)'

C5_AfterWaiting ==
  \A c \in Callers :
    callers[c].pc = "done" /\ callers[c].awaiting # 0 =>
      \/ callers[c].status = 500
      \/ callers[c].result.cacheState \in {"MISS", "FROZEN"}

C5_FreshnessWindow == [](C5_AfterWaiting) /\ [][C5_Classify]_vars

C5_Witness ==
  \E c \in Callers :
    /\ callers[c].pc = "await"
    /\ ~callers[c].force
    /\ SeenRecord(c) # NoRecord
    /\ SeenAge(c) >= CACHE_TTL_MS + STALE_WHILE_REVALIDATE_MS

\* C6: a call without forceRefresh that reads a record in the stale window
\* answers STALE with the record's bodies; it starts the background refresh
\* when none is in flight for the mode and starts nothing when one is, so one
\* refresh of the mode is in flight after it, however many such calls there are.
C6_StaleServe ==
  \A c \in Callers :
    ( /\ AfterReadStep(c)
      /\ SeenRecord(c) # NoRecord
      /\ SeenAge(c) >= CACHE_TTL_MS
      /\ SeenAge(c) < CACHE_TTL_MS + STALE_WHILE_REVALIDATE_MS ) =>
        LET mode == callers[c].mode IN
        /\ Served(c, "STALE")'
        /\ callers'[c].result.payload.bodies = SeenRecord(c).payload.bodies
        /\ callers'[c].result.payload.metadata.cacheStale
        /\ IF inflightByMode[mode] = 0
           THEN /\ inflightByMode'[mode] # 0
                /\ refreshes[inflightByMode'[mode]] = FreeSlot
                /\ refreshes'[inflightByMode'[mode]].corr = 0
           ELSE /\ inflightByMode'[mode] = inflightByMode[mode]
                /\ refreshes' = refreshes
        /\ RunningFor(mode)' = {inflightByMode'[mode]}

C6_OneRevalidation == [][C6_StaleServe]_vars

C6_Witness ==
  \E c1, c2 \in Callers :
    /\ c1 # c2
    /\ Served(c1, "STALE") /\ Served(c2, "STALE")
    /\ Cardinality(RunningFor(callers[c1].mode)) = 1
    /\ \A rid \in RunningFor(callers[c1].mode) : refreshes[rid].corr = 0

\* C7: a call without forceRefresh that reads a record younger than
\* TTL + STALE_WINDOW is answered in that step, HIT or STALE, whether or not a
\* refresh of its mode is in flight; a call starts to wait for a refresh only
\* if it was forced or read no record that young.
C7_ServeStep ==
  \A c \in Callers :
    /\ ( AfterReadStep(c) /\ SeenRecord(c) # NoRecord /\ UsableAge(SeenAge(c)) ) =>
         Served(c, "HIT")' \/ Served(c, "STALE")'
    /\ ( callers[c].pc # "await" /\ callers'[c].pc = "await" ) =>
         \/ callers'[c].force
         \/ SeenRecord(c) = NoRecord
         \/ ~UsableAge(callers'[c].now - SeenRecord(c).cachedAt)

C7_StaleServeNotBlocked == [][C7_ServeStep]_vars

C7_Witness ==
  \E c \in Callers, rid \in RefreshIds :
    /\ Served(c, "STALE")
    /\ refreshes[rid].stage = "fetch"
    /\ refreshes[rid].mode = callers[c].mode
    /\ refreshes[rid].corr # 0

\* the outcomes of the fetch loop of the refresh a waiting call resumes from
AllRejected(results) ==
  /\ Len(results) = NumPlanets
  /\ \A i \in 1..Len(results) : results[i].status = "rejected"
SomeRejected(results) == {i \in 1..Len(results) : results[i].status = "rejected"}
SomeFulfilled(results) == {i \in 1..Len(results) : results[i].status = "fulfilled"}
InSeq(x, seq) == \E i \in 1..Len(seq) : seq[i] = x
BodiesNamed(bodies, name) == {bodies[i] : i \in {j \in 1..Len(bodies) : bodies[j].name = name}}

\* C8: a call that waited for a refresh in which every fetch failed, while a
\* record of the mode existed, answers with that record's bodies, cacheState
\* FROZEN, cacheExpiresInMs = 0, frozenSnapshot = true and a freezeReason.
C8_ResumeStep ==
  \A c \in Callers :
    ( /\ callers[c].pc = "await" /\ callers'[c].pc = "done"
      /\ AllRejected(refreshes[callers[c].awaiting].results)
      /\ refreshes[callers[c].awaiting].cached # NoRecord ) =>
        /\ Served(c, "FROZEN")'
        /\ callers'[c].result.payload.bodies
             = refreshes[callers[c].awaiting].cached.payload.bodies
        /\ callers'[c].result.payload.metadata.cacheExpiresInMs = 0
        /\ callers'[c].result.payload.metadata.frozenSnapshot
        /\ callers'[c].result.payload.metadata.freezeReason # ""

C8_FrozenOnTotalFailure == [][C8_ResumeStep]_vars

\* C9: with no record of the mode, a refresh in which every fetch failed
\* makes the call fail with the propagated error (HTTP 500, an error body, no
\* snapshot), writes no record, and leaves the process running.
C9_FailedCall ==
  \A c \in Callers :
    callers[c].pc = "done" /\ callers[c].status = 500 =>
      /\ callers[c].result.kind = "error"
      /\ callers[c].result.message = "No Horizons data available"
      /\ memoryCache[callers[c].mode] = NoRecord

C9_ErrorWithoutCrash == C9_FailedCall /\ ~crashed

\* C10: a settled refresh in which some fetch failed and some succeeded has
\* produced a snapshot with partial = true; each failed body is in
\* fallbackBodies with the value of the record read at the start of the
\* refresh, or, when that record held none, in missingBodies and absent from
\* the bodies; each fetched body carries its fresh response; the build did
\* not abort.
C10_PartialSnapshot ==
  \A rid \in RefreshIds :
    ( /\ Settled(rid)
      /\ SomeRejected(refreshes[rid].results) # {}
      /\ SomeFulfilled(refreshes[rid].results) # {} ) =>
        /\ refreshes[rid].stage = "ok"
        /\ LET r == refreshes[rid]
               payload == r.result.payload
               previous == IF r.cached = NoRecord THEN <<>> ELSE r.cached.payload.bodies
           IN /\ payload.metadata.partial
              /\ \A p \in SomeFulfilled(r.results) :
                   /\ BodiesNamed(payload.bodies, p)
                        = {[name |-> p, data |-> r.results[p].value]}
                   /\ ~InSeq(p, payload.metadata.fallbackBodies)
                   /\ ~InSeq(p, payload.metadata.missingBodies)
              /\ \A p \in SomeRejected(r.results) :
                   IF BodiesNamed(previous, p) # {}
                   THEN /\ BodiesNamed(payload.bodies, p) = BodiesNamed(previous, p)
                        /\ InSeq(p, payload.metadata.fallbackBodies)
                        /\ ~InSeq(p, payload.metadata.missingBodies)
                   ELSE /\ BodiesNamed(payload.bodies, p) = {}
                        /\ InSeq(p, payload.metadata.missingBodies)
                        /\ ~InSeq(p, payload.metadata.fallbackBodies)

C10_Witness ==
  \E rid \in RefreshIds :
    /\ refreshes[rid].stage = "ok"
    /\ SomeRejected(refreshes[rid].results) # {}
    /\ SomeFulfilled(refreshes[rid].results) # {}
    /\ refreshes[rid].result.payload.metadata.fallbackBodies # <<>>
    /\ \E b1, b2 \in BodiesNamed(refreshes[rid].result.payload.bodies, 1)
                       \cup BodiesNamed(refreshes[rid].result.payload.bodies, 2) :
         b1.data # b2.data

\* ---------------------------------------------------------------
\* Properties of the single-body cache
\* ---------------------------------------------------------------

PendingFor(id) == {o \in Callers : fetches[o].stage = "pending" /\ fetches[o].id = id}

\* C3: for each body id at most one upstream fetch is in flight, it is the
\* one registered in the inflight map, and every request for that id that
\* waits, waits for it; a call that misses or forces a refresh while a
\* fetch for its id is in flight issues none and waits for that one.
C3_AtMostOne ==
  \A id \in BodyIds :
    /\ Cardinality(PendingFor(id)) <= 1
    /\ \A o \in PendingFor(id) :
         /\ inflight[id] = o
         /\ \A c \in Callers :
              bodyCallers[c].pc = "await" /\ bodyCallers[c].id = id =>
                bodyCallers[c].awaiting = o

C3_JoinStep ==
  \A c \in Callers :
    ( /\ bodyCallers[c].pc = "idle" /\ bodyCallers'[c].pc = "await"
      /\ PendingFor(bodyCallers'[c].id) # {} ) =>
        /\ fetches' = fetches
        /\ bodyCallers'[c].awaiting \in PendingFor(bodyCallers'[c].id)

C3_OneFetchPerBody == [](C3_AtMostOne) /\ [][C3_JoinStep]_vars

C3_Witness ==
  \E o \in Callers :
    /\ fetches[o].stage = "pending"
    /\ Cardinality(BodyWaiters(o)) >= 2
    /\ \E c \in BodyWaiters(o) : ~bodyCallers[c].force
    /\ \E c \in BodyWaiters(o) : bodyCallers[c].force

\* C4: forced requests for one body id that were issued before the fetch
\* settled have waited for the same single fetch and get the same outcome,
\* the same cacheStatus and the same body data, whether the fetch succeeded
\* or failed.
C4_SameOutcome ==
  \A c1, c2 \in Callers :
    ( /\ c1 # c2
      /\ bodyCallers[c1].pc = "done" /\ bodyCallers[c2].pc = "done"
      /\ bodyCallers[c1].force /\ bodyCallers[c2].force
      /\ bodyCallers[c1].id = bodyCallers[c2].id
      /\ bodyCallers[c1].awaiting = bodyCallers[c2].awaiting ) =>
        /\ bodyCallers[c1].status = bodyCallers[c2].status
        /\ bodyCallers[c1].status = 200 =>
             /\ bodyCallers[c1].result.payload.metadata.cacheStatus
                  = bodyCallers[c2].result.payload.metadata.cacheStatus
             /\ bodyCallers[c1].result.payload.data = bodyCallers[c2].result.payload.data

\* a request resumes from a fetch that failed
FailedResumeStep(c) ==
  /\ bodyCallers[c].pc = "await"
  /\ bodyCallers'[c].pc = "done"
  /\ fetches[bodyCallers[c].awaiting].stage = "rejected"
FrozenFrom(answered, entry, message) ==
  /\ answered.status = 200
  /\ answered.result.payload.metadata.cacheStatus = "FROZEN"
  /\ answered.result.payload.data = entry.payload.data
  /\ answered.result.payload.metadata.frozenSnapshot
  /\ answered.result.payload.metadata.freezeReason = message
  /\ answered.result.payload.metadata.cacheExpiresInMs = 0

\* C11: a call, forced or not, whose own upstream fetch failed answers with
\* the record an earlier fetch stored for the body, expired or not, as
\* FROZEN with frozenSnapshot, freezeReason = the error and
\* cacheExpiresInMs = 0; the failure propagates only if no record was ever
\* stored for the body.
C11_ResumeStep ==
  \A c \in Callers :
    FailedResumeStep(c) /\ bodyCallers[c].awaiting = c =>
      IF stored[bodyCallers[c].id] # NoEntry
      THEN FrozenFrom(bodyCallers'[c], stored[bodyCallers[c].id], fetches[c].error)
      ELSE bodyCallers'[c].status = 500

C11_FrozenOnFailure == [][C11_ResumeStep]_vars

\* C12: when a fetch fails and the cache holds a record for the body, every
\* request that waited for the fetch, the one that started it and the ones
\* that joined it, answers with the FROZEN fallback; none gets the failure.
C12_ResumeStep ==
  \A c \in Callers :
    FailedResumeStep(c) /\ cache[bodyCallers[c].id] # NoEntry =>
      FrozenFrom(bodyCallers'[c], cache[bodyCallers[c].id],
                 fetches[bodyCallers[c].awaiting].error)

C12_WaitersFrozen == [][C12_ResumeStep]_vars

\* ---------------------------------------------------------------
\* Properties of the snapshot cache, continued
\* ---------------------------------------------------------------

\* the record was fetched for a request, which got its bodies at cachedAt
FetchedForRequest(record) ==
  record # NoRecord /\ record.payload.metadata.requestId # 0

\* C13 as stated: from the time t1 at which a request fetched a snapshot,
\* at every later time t2 with t2 - t1 < TTL the record of the mode is
\* fresh (a call without forceRefresh answers HIT) and holds the bodies
\* fetched at t1, whatever step was taken.
C13_Step ==
  \A mode \in Modes :
    ( /\ FetchedForRequest(memoryCache[mode])
      /\ clock' > memoryCache[mode].cachedAt
      /\ clock' - memoryCache[mode].cachedAt < CACHE_TTL_MS ) =>
        /\ memoryCache'[mode] # NoRecord
        /\ IsFresh(clock' - memoryCache'[mode].cachedAt)
        /\ memoryCache'[mode].payload.bodies = memoryCache[mode].payload.bodies

C13_FetchedStep ==
  \A c \in Callers :
    callers[c].pc = "await" /\ Served(c, "MISS")' =>
      /\ memoryCache[callers[c].mode] # NoRecord
      /\ memoryCache[callers[c].mode].cachedAt = clock
      /\ callers'[c].result.payload.bodies = memoryCache[callers[c].mode].payload.bodies

C13_RecordStep ==
  \A mode \in Modes :
    memoryCache'[mode] # memoryCache[mode] =>
      \E rid \in RefreshIds :
        /\ refreshes[rid].stage = "fetch"
        /\ refreshes[rid].mode = mode
        /\ refreshes'[rid].stage = "ok"
        /\ memoryCache'[mode].cachedAt = clock
        /\ memoryCache'[mode].payload = refreshes'[rid].result.payload

C13_HitStep ==
  \A c \in Callers :
    ( /\ AfterReadStep(c)
      /\ SeenRecord(c) # NoRecord
      /\ SeenAge(c) < CACHE_TTL_MS ) =>
        /\ Served(c, "HIT")'
        /\ callers'[c].result.payload.bodies = SeenRecord(c).payload.bodies
        /\ memoryCache' = memoryCache

SnapshotOfZero(bodies) ==
  /\ Len(bodies) = NumPlanets
  /\ \A i \in 1..Len(bodies) : bodies[i].data = 0
AnswerStep(c) == callers[c].pc \in {"read", "await"} /\ callers'[c].pc = "done"

\* C14: with TTL = 2 units and STALE_WINDOW = 1 unit and a snapshot cached at
\* t = 0, a call without forceRefresh in the first unit after TTL / 2
\* (t = 100 s, clock 1) answers HIT; one in the stale window (t = 150 s,
\* clock 2) answers STALE and leaves a refresh in flight; and one past the
\* stale window (t = 200 s, clock 3), the upstream having delivered nothing
\* since t = 0, answers FROZEN with the age of the snapshot, 3 units, and
\* cacheExpiresInMs = 0.
C14_Step ==
  \A c \in Callers :
    ( /\ AnswerStep(c)
      /\ ~callers[c].force
      /\ SeenRecord(c) # NoRecord
      /\ SnapshotOfZero(SeenRecord(c).payload.bodies) ) =>
        /\ callers[c].now = 1 /\ SeenRecord(c).cachedAt = 0 => Served(c, "HIT")'
        /\ callers[c].now = 2 /\ SeenRecord(c).cachedAt = 0 =>
             /\ Served(c, "STALE")'
             /\ RunningFor(callers[c].mode)' # {}
        /\ ( /\ callers[c].now = 3
             /\ callers'[c].status = 200
             /\ SnapshotOfZero(callers'[c].result.payload.bodies) ) =>
               /\ Served(c, "FROZEN")'
               /\ callers'[c].result.cacheAgeMs = 3
               /\ callers'[c].result.payload.metadata.cacheExpiresInMs = 0

C14_Timeline == [][C14_Step]_vars

\* the timeline of C14 as the code runs it, on /planets/full (no prewarm):
\* the call at clock 3 is a HIT on the record that the revalidation of
\* clock 2 rebuilt from fallbacks
C14_AsRun ==
  \E c \in Callers :
    /\ served = "full"
    /\ memoryCache["full"].cachedAt = 2
    /\ memoryCache["full"].payload.metadata.requestId = 0
    /\ Served(c, "HIT")
    /\ ~callers[c].force
    /\ callers[c].now = 3
    /\ callers[c].result.cacheAgeMs = 1
    /\ SnapshotOfZero(callers[c].result.payload.bodies)
    /\ Len(callers[c].result.payload.metadata.fallbackBodies) = NumPlanets
    /\ callers[c].result.payload.metadata.requestId = c

\* C15: every record in the snapshot cache holds at least one body, and a
\* refresh that ended with no body has thrown: it has no result and the
\* record of its mode is not one it wrote.
C15_NoEmptyRecord ==
  /\ \A mode \in Modes :
       memoryCache[mode] # NoRecord => Len(memoryCache[mode].payload.bodies) >= 1
  /\ \A rid \in RefreshIds :
       ( /\ Settled(rid)
         /\ AllRejected(refreshes[rid].results)
         /\ refreshes[rid].cached = NoRecord ) =>
           /\ refreshes[rid].stage = "rejected"
           /\ refreshes[rid].result = NoResult
           /\ memoryCache[refreshes[rid].mode] = NoRecord

C15_Witness ==
  \E rid \in RefreshIds :
    /\ refreshes[rid].stage = "rejected"
    /\ AllRejected(refreshes[rid].results)
    /\ memoryCache[refreshes[rid].mode] = NoRecord
    /\ Waiters(rid) # {}

BodyCallStep(c) ==
  /\ bodyCallers[c].pc = "idle"
  /\ bodyCallers'[c].pc # "idle"
  /\ bodyCallers'[c].status # 404

\* C17: a call without forceRefresh that finds a record with now < expiresAt
\* answers at once with the record's data, cacheStatus HIT,
\* cacheAgeMs = now - cachedAt and cacheExpiresInMs = max(0, expiresAt - now);
\* it starts no fetch and changes neither the cache nor the inflight map.
C17_HitStep ==
  \A c \in Callers :
    ( /\ BodyCallStep(c)
      /\ ~bodyCallers'[c].force
      /\ cache[bodyCallers'[c].id] # NoEntry
      /\ clock < cache[bodyCallers'[c].id].expiresAt ) =>
        LET entry == cache[bodyCallers'[c].id]
            answer == bodyCallers'[c].result
        IN /\ bodyCallers'[c].pc = "done"
           /\ bodyCallers'[c].status = 200
           /\ answer.payload.data = entry.payload.data
           /\ answer.payload.metadata.cacheStatus = "HIT"
           /\ answer.payload.metadata.cacheAgeMs = clock - entry.cachedAt
           /\ answer.payload.metadata.cacheExpiresInMs
                = Max(0, entry.expiresAt - clock)
           /\ fetches' = fetches
           /\ cache' = cache
           /\ inflight' = inflight

C17_BodyHit == [][C17_HitStep]_vars

C17_Witness ==
  \E c \in Callers :
    /\ bodyCallers[c].pc = "done"
    /\ bodyCallers[c].status = 200
    /\ bodyCallers[c].result.payload.metadata.cacheStatus = "HIT"
    /\ bodyCallers[c].result.payload.metadata.cacheAgeMs = 1
    /\ bodyCallers[c].result.payload.metadata.cacheExpiresInMs = 1
    /\ PendingFor(bodyCallers[c].id) # {}

\* ---------------------------------------------------------------
\* Properties of both caches
\* ---------------------------------------------------------------

\* C18: when a caller resumes from the refresh or the fetch it waited for,
\* the in-flight map no longer holds it; between two turns of the event loop
\* every entry of either map is a refresh or a fetch that has not settled;
\* and what a call starts to wait for has not settled, so a call after the
\* settlement waits for a new one.
C18_ResumeStep ==
  /\ \A c \in Callers :
       callers[c].pc = "await" /\ callers'[c].pc = "done" =>
         inflightByMode[callers[c].mode] # callers[c].awaiting
  /\ \A c \in Callers :
       bodyCallers[c].pc = "await" /\ bodyCallers'[c].pc = "done" =>
         inflight[bodyCallers[c].id] # bodyCallers[c].awaiting
  /\ \A c \in Callers :
       callers[c].pc # "await" /\ callers'[c].pc = "await" =>
         /\ callers'[c].awaiting \in RunningFor(callers[c].mode)'
         /\ inflightByMode'[callers[c].mode] = callers'[c].awaiting
  /\ \A c \in Callers :
       BodyCallStep(c) /\ bodyCallers'[c].pc = "await" =>
         /\ fetches'[bodyCallers'[c].awaiting].stage = "pending"
         /\ fetches'[bodyCallers'[c].awaiting].id = bodyCallers'[c].id
         /\ inflight'[bodyCallers'[c].id] = bodyCallers'[c].awaiting

C18_NoStuckSlot ==
  MacrotaskReady /\ BodyLoopIdle =>
    /\ \A mode \in Modes :
         inflightByMode[mode] # 0 => inflightByMode[mode] \in RunningFor(mode)
    /\ \A id \in BodyIds :
         inflight[id] # 0 => inflight[id] \in PendingFor(id)

Background(rid) == refreshes[rid] # FreeSlot /\ refreshes[rid].corr = 0

\* C19: the failure of a refresh started in the background leaves no
\* rejection without a handler, and no request that waited for that refresh
\* is answered with the error.
C19_Step ==
  /\ \A rid \in RefreshIds :
       ( /\ Background(rid)
         /\ refreshes[rid].stage = "rejected"
         /\ ~refreshes[rid].cleared
         /\ refreshes'[rid] # refreshes[rid] ) =>
           unhandled' = unhandled
  /\ \A c \in Callers :
       ( /\ callers[c].pc = "await" /\ callers'[c].pc = "done"
         /\ Background(callers[c].awaiting) ) =>
           callers'[c].status = 200

C19_BackgroundFailureHandled == [][C19_Step]_vars

\* the other half of what C19 denies: a request is answered 500 with the
\* error of a prewarm refresh it had joined
C19_ThrownIntoCaller ==
  \E c \in Callers :
    /\ callers[c].pc = "done"
    /\ callers[c].status = 500
    /\ callers[c].awaiting # 0
    /\ refreshes[callers[c].awaiting] # FreeSlot
    /\ refreshes[callers[c].awaiting].corr = 0

\* a step of the timer: a refresh starts and no request has moved
PrewarmStep(rid) ==
  /\ callers' = callers
  /\ refreshes[rid] = FreeSlot
  /\ refreshes'[rid] # FreeSlot

\* C20: a prewarm tick starts a refresh only when the loop is scheduled
\* (TTL > 0, interval finite and > 0) and no refresh of state-vectors is in
\* flight; what it starts is one refresh of state-vectors; it changes
\* nothing of the full mode and no record.  When the loop is scheduled and
\* no refresh of state-vectors is in flight, the tick does start one.
C20_TickStep ==
  \A rid \in RefreshIds :
    PrewarmStep(rid) =>
      /\ CACHE_TTL_MS # 0
      /\ PREWARM_INTERVAL_MS.value # 0
      /\ PREWARM_INTERVAL_MS.finite
      /\ inflightByMode["state-vectors"] = 0
      /\ refreshes'[rid].mode = "state-vectors"
      /\ refreshes'[rid].corr = 0
      /\ inflightByMode' = [inflightByMode EXCEPT !["state-vectors"] = rid]
      /\ memoryCache' = memoryCache
      /\ \A other \in RefreshIds \ {rid} : refreshes'[other] = refreshes[other]

C20_TickStarts ==
  ( /\ MacrotaskReady
    /\ CACHE_TTL_MS > 0
    /\ PREWARM_INTERVAL_MS.finite /\ PREWARM_INTERVAL_MS.value > 0
    /\ inflightByMode["state-vectors"] = 0
    /\ \E rid \in RefreshIds : refreshes[rid] = FreeSlot ) =>
      ENABLED PrewarmTick

RequestFields == {"cacheStatus", "cacheAgeMs", "generatedAt", "requestId"}

\* C21: the payload of a stored record carries no cacheStatus, cacheAgeMs,
\* generatedAt or requestId: what is decorated for a caller is a copy, and
\* the stored payload stays as buildPlanetSnapshot returned it.
C21_StoredUndecorated ==
  \A mode \in Modes :
    memoryCache[mode] # NoRecord =>
      RequestFields \cap DOMAIN memoryCache[mode].payload.metadata = {}

\* what C21 denies, as it runs: the record in memory carries the MISS
\* decoration and the id of the request that caused the refresh, and a later
\* request with another id is being answered HIT from it
C21_DecoratedInPlace ==
  \E c \in Callers :
    LET rec == memoryCache[callers[c].mode] IN
    /\ Served(c, "HIT")
    /\ rec # NoRecord
    /\ rec.payload.metadata.cacheStatus = "MISS"
    /\ rec.payload.metadata.requestId # 0
    /\ rec.payload.metadata.requestId # c

\* ---------------------------------------------------------------
\* Properties of the snapshot cache with Redis
\* ---------------------------------------------------------------

\* a readCache that went to Redis gets its answer
GetStepOf(c) ==
  /\ callers[c].pc \in {"get", "catch"}
  /\ callers'[c].pc \in {"read", "caught"}
GetStepOfRefresh(rid) ==
  /\ refreshes[rid].stage = "get"
  /\ refreshes'[rid].stage = "read"

\* what C22 says a read does to memory
ReadEffect(mode) ==
  IF /\ redisReady = "client"
     /\ reachable
     /\ store[mode] # NoKey /\ clock < store[mode].expiresAt
  THEN memoryCache' = [memoryCache EXCEPT ![mode] = store[mode].raw.text]
  ELSE memoryCache' = memoryCache

\* C22: a readCache whose store is configured, reachable and holds the key
\* puts the store's record in memory and returns it; otherwise (no client,
\* failed read, absent key) it leaves memory as it is and returns the memory
\* record or null.  What it returns is the memory record at the moment its
\* caller resumes: nothing touches memory in between.
C22_Step ==
  /\ \A c \in Callers : GetStepOf(c) => ReadEffect(callers[c].mode)
  /\ \A rid \in RefreshIds : GetStepOfRefresh(rid) => ReadEffect(refreshes[rid].mode)
  /\ \A c \in Callers :
       /\ callers[c].pc \in {"read", "caught"} => memoryCache' = memoryCache
       /\ callers[c].pc = "backend" /\ callers'[c].pc = "read" => redisReady # "client"
       /\ callers[c].pc = "backend" /\ callers'[c].pc = "get" => redisReady = "client"
       /\ ( callers[c].pc = "read" /\ (Served(c, "HIT")' \/ Served(c, "STALE")') ) =>
            callers'[c].result.payload.bodies
              = memoryCache[callers[c].mode].payload.bodies
       /\ ( callers[c].pc = "caught" /\ callers'[c].pc = "done" ) =>
            IF memoryCache[callers[c].mode] = NoRecord
            THEN callers'[c].status = 500
            ELSE /\ Served(c, "FROZEN")'
                 /\ callers'[c].result.payload.bodies
                      = memoryCache[callers[c].mode].payload.bodies
  /\ \A rid \in RefreshIds :
       refreshes[rid].stage = "read" =>
         /\ memoryCache' = memoryCache
         /\ refreshes'[rid].stage = "fetch" =>
              refreshes'[rid].cached = memoryCache[refreshes[rid].mode]

C22_ReadCache == [][C22_Step]_vars

\* a request has read from Redis a record that replaced the one a refresh
\* had just put in memory
C22_Witness ==
  \E c \in Callers, rid \in RefreshIds :
    /\ callers[c].pc = "read"
    /\ redisReady = "client"
    /\ store[callers[c].mode] # NoKey
    /\ memoryCache[callers[c].mode] = store[callers[c].mode].raw.text
    /\ refreshes[rid].stage = "write"
    /\ refreshes[rid].mode = callers[c].mode
    /\ ~refreshes[rid].result.aliased
    /\ refreshes[rid].result.record.cachedAt > memoryCache[callers[c].mode].cachedAt

\* the record in memory is one whose refresh has returned: with a client,
\* the payload is decorated only after writeCache is over
RefreshReturned(mode) ==
  /\ memoryCache[mode] # NoRecord
  /\ "cacheStatus" \in DOMAIN memoryCache[mode].payload.metadata

\* C23: the record a finished refresh left in memory is not replaced by an
\* older one, whether or not its write to Redis failed: the cachedAt of the
\* memory record of a mode never decreases.
C23_Step ==
  \A mode \in Modes :
    RefreshReturned(mode) => memoryCache'[mode].cachedAt >= memoryCache[mode].cachedAt

C23_LocalCopyAuthoritative == [][C23_Step]_vars

\* a request gets its answer
AnswerOf(c) == callers[c].pc # "done" /\ callers'[c].pc = "done"

\* C24: no Redis failure makes getSnapshot fail.  A refresh is rejected only
\* when every upstream fetch failed and it had read no record; a request that
\* waited for a refresh that succeeded is answered MISS; a request is answered
\* 500 only with the error of such a refresh and with no record in memory;
\* and memory, once it holds a record of a mode, holds one for good.
C24_Rejected ==
  \A rid \in RefreshIds :
    refreshes[rid].stage = "rejected" =>
      /\ AllRejected(refreshes[rid].results)
      /\ refreshes[rid].cached = NoRecord
      /\ refreshes[rid].error = "No Horizons data available"

C24_Step ==
  /\ \A c \in Callers :
       /\ ( AnswerOf(c) /\ callers'[c].status = 500 ) =>
            /\ memoryCache[callers[c].mode] = NoRecord
            /\ callers'[c].result.message = "No Horizons data available"
       /\ ( AnswerOf(c) /\ callers[c].pc = "await"
                        /\ refreshes[callers[c].awaiting].stage = "ok" ) =>
            Served(c, "MISS")'
  /\ \A mode \in Modes :
       memoryCache[mode] # NoRecord => memoryCache'[mode] # NoRecord

C24_RedisNeverFails == [](C24_Rejected) /\ [][C24_Step]_vars

\* a request is answered with the fetched snapshot although the read of the
\* refresh found nothing in Redis and its write failed
C24_Witness ==
  \E c \in Callers :
    /\ Served(c, "MISS")
    /\ callers[c].result.cacheBackend = "redis"
    /\ ~reachable
    /\ store[callers[c].mode] = NoKey
    /\ memoryCache[callers[c].mode] # NoRecord

\* ---------------------------------------------------------------
\* Properties across modes and across body ids
\* ---------------------------------------------------------------

\* what the cache holds for a mode, and for a body id
OfMode(m) == <<memoryCache[m], inflightByMode[m]>>
OfBody(id) == <<cache[id], inflight[id]>>

\* the modes and the ids of the requests and promises that move in a step
ModesMoved ==
  {callers'[c].mode : c \in {x \in Callers : callers'[x] # callers[x]}}
  \cup {refreshes[rid].mode :
          rid \in {x \in RefreshIds : refreshes'[x] # refreshes[x] /\ refreshes[x] # FreeSlot}}
  \cup {refreshes'[rid].mode :
          rid \in {x \in RefreshIds : refreshes'[x] # refreshes[x] /\ refreshes'[x] # FreeSlot}}
BodiesMoved ==
  {bodyCallers'[c].id : c \in {x \in Callers : bodyCallers'[x] # bodyCallers[x]}}
  \cup {fetches[o].id :
          o \in {x \in Callers : fetches'[x] # fetches[x] /\ fetches[x] # FreeSlot}}
  \cup {fetches'[o].id :
          o \in {x \in Callers : fetches'[x] # fetches[x] /\ fetches'[x] # FreeSlot}}

\* C25: a step of a request or a refresh of one mode changes the record and
\* the in-flight entry of no other mode, and a request waits only for a
\* refresh of its own mode, which is the one registered for that mode;
\* a step of a request or a fetch for one body id changes the cache entry
\* and the in-flight entry of no other id.
C25_Step ==
  /\ Cardinality(ModesMoved) <= 1
  /\ \A m \in Modes : OfMode(m)' # OfMode(m) => ModesMoved = {m}
  /\ Cardinality(BodiesMoved) <= 1
  /\ \A id \in BodyIds : OfBody(id)' # OfBody(id) => BodiesMoved = {id}

C25_OwnRefresh ==
  /\ \A c \in Callers :
       callers[c].pc = "await" =>
         /\ refreshes[callers[c].awaiting] # FreeSlot
         /\ refreshes[callers[c].awaiting].mode = callers[c].mode
  /\ \A m \in Modes :
       inflightByMode[m] # 0 =>
         /\ refreshes[inflightByMode[m]] # FreeSlot
         /\ refreshes[inflightByMode[m]].mode = m
  /\ \A c \in Callers :
       bodyCallers[c].pc = "await" =>
         /\ fetches[bodyCallers[c].awaiting] # FreeSlot
         /\ fetches[bodyCallers[c].awaiting].id = bodyCallers[c].id

C25_Independent == [](C25_OwnRefresh) /\ [][C25_Step]_vars

\* a request waits for the refresh of its mode while a refresh of the other
\* mode is in flight and both modes hold a record
C25_Witness ==
  \E c \in Callers, m \in Modes :
    /\ callers[c].pc = "await"
    /\ m # callers[c].mode
    /\ RunningFor(m) # {}
    /\ RunningFor(callers[c].mode) = {callers[c].awaiting}
    /\ memoryCache[m] # NoRecord
    /\ memoryCache[callers[c].mode] # NoRecord
    /\ memoryCache[m].cachedAt # memoryCache[callers[c].mode].cachedAt

\* ---------------------------------------------------------------
\* Properties of the routes
\* ---------------------------------------------------------------

\* the request carries refresh=1|true or X-Refresh-Cache: 1|true
Carries(req) ==
  \/ req.refresh.kind = "string" /\ req.refresh.value \in {"1", "true"}
  \/ /\ req.refresh.kind = "array"
     /\ \E i \in 1..Len(req.refresh.value) : req.refresh.value[i] \in {"1", "true"}
  \/ req.header.kind = "string" /\ req.header.value \in {"1", "true"}

\* C26: a request that carries refresh=1|true or X-Refresh-Cache: 1|true is
\* a forced one; a forced getSnapshot goes from its start to waiting for a
\* refresh of its mode without reading the cache, and is answered MISS,
\* FROZEN or 500; a forced getBodyEphemeris waits for a fetch of its id and
\* is answered MISS, FROZEN or 500.
C26_Parsed == \A req \in Requests : Carries(req) => parseForceRefresh(req)

C26_Answer ==
  /\ \A c \in Callers :
       callers[c].force =>
         /\ callers[c].pc \in {"backend", "await", "catch", "caught", "done"}
         /\ callers[c].pc = "await" =>
              /\ refreshes[callers[c].awaiting] # FreeSlot
              /\ refreshes[callers[c].awaiting].mode = callers[c].mode
         /\ callers[c].pc = "done" =>
              /\ callers[c].awaiting # 0
              /\ \/ callers[c].status = 500
                 \/ callers[c].result.cacheState \in {"MISS", "FROZEN"}
  /\ \A c \in Callers :
       bodyCallers[c].force /\ bodyCallers[c].pc # "idle" =>
         /\ bodyCallers[c].awaiting # 0
         /\ bodyCallers[c].pc = "done" =>
              \/ bodyCallers[c].status = 500
              \/ bodyCallers[c].result.payload.metadata.cacheStatus \in {"MISS", "FROZEN"}

C26_Step ==
  /\ \A c \in Callers :
       ( callers[c].pc = "backend" /\ callers[c].force /\ callers'[c] # callers[c] ) =>
         /\ callers'[c].pc = "await"
         /\ callers'[c].awaiting \in RunningFor(callers[c].mode)'
  /\ \A c \in Callers :
       ( callers[c].pc = "await" /\ callers'[c].pc # "await" ) =>
         Settled(callers[c].awaiting)
  /\ \A c \in Callers :
       ( bodyCallers[c].pc = "await" /\ bodyCallers'[c].pc # "await" ) =>
         fetches[bodyCallers[c].awaiting].stage \in {"ok", "rejected"}

C26_BodyBypass ==
  \E c \in Callers :
    /\ bodyCallers[c].force
    /\ bodyCallers[c].pc = "await"
    /\ bodyCallers[c].awaiting = c
    /\ cache[bodyCallers[c].id] # NoEntry
    /\ bodyCallers[c].now < cache[bodyCallers[c].id].expiresAt

\* C27: once memory holds a record of a mode it holds one for good, no
\* refresh of that mode is rejected, and every request of that mode is
\* answered 200 with HIT, STALE, MISS or FROZEN; a request is answered 500
\* only when memory holds no record of its mode and the refresh it waited for
\* was rejected because every upstream fetch failed.
C27_Rejected ==
  /\ \A rid \in RefreshIds :
       refreshes[rid].stage = "rejected" =>
         /\ memoryCache[refreshes[rid].mode] = NoRecord
         /\ AllRejected(refreshes[rid].results)
  /\ \A c \in Callers :
       callers[c].pc = "done" /\ callers[c].status = 500 =>
         /\ memoryCache[callers[c].mode] = NoRecord
         /\ callers[c].awaiting # 0

C27_Step ==
  /\ \A m \in Modes : memoryCache[m] # NoRecord => memoryCache'[m] # NoRecord
  /\ \A c \in Callers :
       ( AnswerOf(c) /\ memoryCache[callers'[c].mode] # NoRecord ) =>
         /\ callers'[c].status = 200
         /\ callers'[c].result.cacheState \in {"HIT", "STALE", "MISS", "FROZEN"}
  /\ \A c \in Callers :
       ( AnswerOf(c) /\ callers'[c].status = 500 ) =>
         /\ callers[c].pc = "await"
         /\ refreshes[callers[c].awaiting].stage = "rejected"

C27_NoFailureOnceCached == [](C27_Rejected) /\ [][C27_Step]_vars

\* a request is answered 200 from a refresh in which every upstream fetch
\* failed, because a record of the mode had been cached
C27_Witness ==
  \E c \in Callers :
    /\ callers[c].pc = "done"
    /\ callers[c].status = 200
    /\ callers[c].awaiting # 0
    /\ Len(callers[c].result.payload.metadata.fallbackBodies) = NumPlanets

\* the route takes a request: the handler of /body/:id runs up to its
\* first await or to its answer
BodyRequestStep(c) == bodyCallers[c].pc = "idle" /\ bodyCallers'[c].pc # "idle"

\* C28: a request for an id outside the catalogue is answered 404 at once,
\* and the entries, the fetches in flight and the upstream fetches are what
\* they were; only catalogued ids ever wait for a fetch or have one started,
\* and 404 is answered to no catalogued id.
C28_Catalogued ==
  /\ \A c \in Callers :
       /\ bodyCallers[c].pc = "await" => bodyCallers[c].id \in BodyIds
       /\ bodyCallers[c].status = 404 => bodyCallers[c].id \notin BodyIds
  /\ \A o \in Callers : fetches[o].stage # "free" => fetches[o].id \in BodyIds

C28_Step ==
  \A c \in Callers :
    ( BodyRequestStep(c) /\ bodyCallers'[c].id \notin BodyIds ) =>
      /\ bodyCallers'[c].pc = "done"
      /\ bodyCallers'[c].status = 404
      /\ bodyCallers'[c].result.kind = "error"
      /\ UNCHANGED <<cache, inflight, fetches, stored>>

C28_UnknownBody404 == [](C28_Catalogued) /\ [][C28_Step]_vars

\* an unknown id has been answered 404 while another request waits for the
\* fetch of a catalogued id and an entry is cached
C28_Witness ==
  \E c, w \in Callers :
    /\ bodyCallers[c].pc = "done"
    /\ bodyCallers[c].status = 404
    /\ bodyCallers[c].id \in UnknownIds
    /\ bodyCallers[w].pc = "await"
    /\ inflight[bodyCallers[w].id] = bodyCallers[w].awaiting
    /\ \E id \in BodyIds : cache[id] # NoEntry

\* ---------------------------------------------------------------
\* Properties of a revalidation that runs on
\* ---------------------------------------------------------------

Times == 0..MaxClock

\* a revalidation of the mode has just returned at time t with every body
\* fetched, and no request is in progress
Revalidated(mode, t) ==
  /\ clock = t
  /\ \A c \in Callers : callers[c].pc = "idle"
  /\ \E rid \in RefreshIds :
       /\ Background(rid)
       /\ refreshes[rid].mode = mode
       /\ refreshes[rid].stage = "ok"
       /\ SomeRejected(refreshes[rid].results) = {}

\* every answer to a request without forceRefresh taken less than the TTL
\* after t is a HIT with bodies fetched at t or later
FreshAnswers(mode, t) ==
  \A c \in Callers :
    ( /\ callers[c].pc = "done"
      /\ callers[c].mode = mode
      /\ ~callers[c].force
      /\ callers[c].now - t < CACHE_TTL_MS ) =>
        /\ callers[c].status = 200
        /\ callers[c].result.cacheState = "HIT"
        /\ \A i \in 1..Len(callers[c].result.payload.bodies) :
             callers[c].result.payload.bodies[i].data >= t

\* C29: a revalidation started in the background runs to its return (unless
\* the process has ended), and once it has returned with every body fetched,
\* each request without forceRefresh made after that and within the TTL of
\* it is answered HIT with the bodies it fetched or newer ones.
C29_Returns ==
  \A rid \in RefreshIds :
    ( Background(rid) /\ Running(rid) ) ~> ( refreshes[rid].stage = "ok" \/ crashed )

C29_NextIsFresh ==
  \A mode \in Modes, t \in Times :
    []( Revalidated(mode, t) => [](FreshAnswers(mode, t)) )

C29_NextCallerFresh == C29_Returns /\ C29_NextIsFresh

\* the same where the process has no Redis client
C29_WithoutRedis ==
  \A mode \in Modes, t \in Times :
    []( ( Revalidated(mode, t) /\ ~Client ) => [](FreshAnswers(mode, t)) )

\* ---------------------------------------------------------------
\* Properties of the fetch loop
\* ---------------------------------------------------------------

\* the bodies follow the order of PLANETS
InCatalogOrder(bodies) ==
  \A i, j \in 1..Len(bodies) : i < j => bodies[i].name < bodies[j].name

\* the loop of a refresh has pushed one result for each of PLANETS
LoopDone(rid) == refreshes[rid].stage \in {"write", "ok", "rejected"}

\* C30: the loop of a refresh fetches the bodies of PLANETS one after the
\* other: it holds the results of the first bodies only, each answer adds
\* the result of the next body whether it is fulfilled or rejected, and the
\* loop ends with one result for every body.  The snapshot lists its bodies
\* in the order of PLANETS, each fulfilled body with the value fetched.
C30_Results ==
  \A rid \in RefreshIds :
    /\ refreshes[rid].stage \in {"get", "read"} => refreshes[rid].results = <<>>
    /\ refreshes[rid].stage = "fetch" => Len(refreshes[rid].results) < NumPlanets
    /\ LoopDone(rid) => Len(refreshes[rid].results) = NumPlanets
    /\ refreshes[rid].stage = "ok" =>
         LET bodies == refreshes[rid].result.payload.bodies
             results == refreshes[rid].results
         IN /\ InCatalogOrder(bodies)
            /\ \A i \in SomeFulfilled(results) :
                 BodiesNamed(bodies, i) = {[name |-> i, data |-> results[i].value]}

C30_Cached ==
  \A mode \in Modes :
    memoryCache[mode] # NoRecord => InCatalogOrder(memoryCache[mode].payload.bodies)

C30_Step ==
  \A rid \in RefreshIds :
    ( refreshes[rid].stage = "fetch" /\ refreshes'[rid] # refreshes[rid] ) =>
      /\ Len(refreshes'[rid].results) = Len(refreshes[rid].results) + 1
      /\ SubSeq(refreshes'[rid].results, 1, Len(refreshes[rid].results))
           = refreshes[rid].results
      /\ refreshes'[rid].stage = "fetch" <=> Len(refreshes'[rid].results) < NumPlanets

C30_FetchLoop == [](C30_Results /\ C30_Cached) /\ [][C30_Step]_vars

\* a refresh has returned a snapshot after the fetch of its first body
\* failed: the loop went on to the last body, and the snapshot lists the
\* first body from the previous record before the last one as fetched
C30_Witness ==
  \E rid \in RefreshIds :
    /\ refreshes[rid].stage = "ok"
    /\ refreshes[rid].results[1].status = "rejected"
    /\ refreshes[rid].results[NumPlanets].status = "fulfilled"
    /\ Len(refreshes[rid].result.payload.bodies) = NumPlanets
    /\ refreshes[rid].result.payload.bodies[NumPlanets].data
         > refreshes[rid].result.payload.bodies[1].data

\* ---------------------------------------------------------------
\* Properties of the reported backend
\* ---------------------------------------------------------------

\* readCache has just returned the record parsed from Redis
FromStore(mode) == Client /\ RedisHolds(mode)

\* C31: a request answered HIT or STALE reports cacheBackend "redis" exactly
\* when the record it serves was read from Redis, and "memory" when the
\* record is the one of memoryCache (no client, a failed read, no key); a
\* refresh reports "redis" only when its record was written to Redis.
C31_Step ==
  /\ \A c \in Callers :
       ( callers[c].pc = "read" /\ callers'[c].pc = "done" ) =>
         ( callers'[c].result.cacheBackend = "redis" <=> FromStore(callers[c].mode) )
  /\ \A rid \in RefreshIds :
       ( refreshes[rid].stage = "write" /\ refreshes'[rid].stage = "ok" ) =>
         ( refreshes'[rid].result.cacheBackend = "redis" => reachable )

C31_BackendUsed == [][C31_Step]_vars

\* the same for the served record alone
C31_ServedStep ==
  \A c \in Callers :
    ( callers[c].pc = "read" /\ callers'[c].pc = "done" ) =>
      ( callers'[c].result.cacheBackend = "redis" => FromStore(callers[c].mode) )

C31_ServedFromStore == [][C31_ServedStep]_vars

\* ------------------------------------- Properties with CACHE_TTL_MS=0

\* the step in which getSnapshot returns without having awaited a refresh
SnapshotFromCache(c) ==
  /\ callers[c].pc = "read"
  /\ callers'[c].pc = "done"

\* the step in which getBodyEphemeris returns without having awaited a fetch
BodyFromCache(c) ==
  /\ BodyCallStep(c)
  /\ bodyCallers'[c].pc = "done"

\* C32: with CACHE_TTL_MS = 0 and any CACHE_STALE_MS, no getSnapshot call and
\* no getBodyEphemeris call returns HIT or STALE, and every call awaits an
\* upstream refresh before it returns.
C32_Step ==
  \A c \in Callers :
    /\ ~SnapshotFromCache(c)
    /\ ( callers[c].pc # "done" /\ callers'[c].pc = "done"
         /\ callers'[c].result.kind = "ok" ) =>
         callers'[c].result.cacheState \notin {"HIT", "STALE"}
    /\ ~BodyFromCache(c)
    /\ ( bodyCallers[c].pc # "done" /\ bodyCallers'[c].pc = "done"
         /\ bodyCallers'[c].result.kind = "ok" ) =>
         bodyCallers'[c].result.payload.metadata.cacheStatus \notin {"HIT", "STALE"}
C32_AlwaysRefresh == [][C32_Step]_vars

\* the body cache alone does so
C32_BodyStep ==
  \A c \in Callers :
    /\ ~BodyFromCache(c)
    /\ ( bodyCallers[c].pc # "done" /\ bodyCallers'[c].pc = "done"
         /\ bodyCallers'[c].result.kind = "ok" ) =>
         bodyCallers'[c].result.payload.metadata.cacheStatus \notin {"HIT", "STALE"}
C32_BodyAlwaysRefresh == [][C32_BodyStep]_vars

\* the snapshot cache does so where the stale window is 0
C32_NoWindowStep ==
  STALE_WHILE_REVALIDATE_MS = 0 =>
    \A c \in Callers :
      /\ ~SnapshotFromCache(c)
      /\ ( callers[c].pc # "done" /\ callers'[c].pc = "done"
           /\ callers'[c].result.kind = "ok" ) =>
           callers'[c].result.cacheState \notin {"HIT", "STALE"}
C32_NoWindowAlwaysRefresh == [][C32_NoWindowStep]_vars

\* ------------------------------------- Properties of a built snapshot

\* the names a sequence of names or of bodies holds
Named(names) == {names[i] : i \in 1..Len(names)}
InBodies(payload) == {payload.bodies[i].name : i \in 1..Len(payload.bodies)}

\* the refreshes whose buildPlanetSnapshot has returned a snapshot
Built == {rid \in RefreshIds : refreshes[rid].stage \in {"write", "ok"}}
BuiltPayload(rid) ==
  IF refreshes[rid].stage = "write" THEN refreshes[rid].result.record.payload
  ELSE refreshes[rid].result.payload

\* C33: in every snapshot built by a refresh each tracked body is in exactly
\* one of three groups: fetched (in bodies, in neither list), fallback (in
\* bodies and in fallbackBodies) or missing (in missingBodies, not in bodies);
\* partial is true exactly when one of the lists is not empty, and every body
\* not named in fallbackBodies holds what upstream answered in that refresh.
C33_Groups ==
  \A rid \in Built :
    LET payload == BuiltPayload(rid)
        results == refreshes[rid].results
        fallback == Named(payload.metadata.fallbackBodies)
        missing == Named(payload.metadata.missingBodies)
        fetched == InBodies(payload) \ fallback
    IN /\ fetched \cup fallback \cup missing = PLANETS
       /\ fallback \subseteq InBodies(payload)
       /\ fallback \cap missing = {}
       /\ missing \cap InBodies(payload) = {}
       /\ Len(payload.bodies) = Cardinality(InBodies(payload))
       /\ payload.metadata.partial <=> (fallback # {} \/ missing # {})
       /\ \A i \in 1..Len(payload.bodies) :
            payload.bodies[i].name \in fetched =>
              /\ results[payload.bodies[i].name].status = "fulfilled"
              /\ payload.bodies[i].data = results[payload.bodies[i].name].value

\* a snapshot with a fetched body and a body from the previous snapshot
C33_Witness ==
  \E rid \in Built :
    /\ BuiltPayload(rid).metadata.fallbackBodies = <<1>>
    /\ BuiltPayload(rid).metadata.missingBodies = <<>>
    /\ InBodies(BuiltPayload(rid)) = PLANETS
    /\ BuiltPayload(rid).metadata.partial

\* --------------------------- Properties of a refresh that fetched nothing

\* the step in which the fetch loop of refresh rid ends with every fetch failed
AllFailed(rid) ==
  /\ refreshes[rid].stage = "fetch"
  /\ refreshes'[rid].stage # "fetch"
  /\ \A p \in PLANETS : refreshes'[rid].results[p].status = "rejected"

\* C34: a refresh in which every upstream fetch fails leaves the record of
\* its mode unchanged: it stores no new record and does not advance cachedAt.
C34_Step ==
  \A rid \in RefreshIds : AllFailed(rid) =>
    memoryCache'[refreshes[rid].mode] = memoryCache[refreshes[rid].mode]
C34_RecordUnchanged == [][C34_Step]_vars

\* without a record of the mode such a refresh stores none
C34_NoRecordStep ==
  \A rid \in RefreshIds :
    ( AllFailed(rid) /\ refreshes[rid].cached = NoRecord ) =>
      memoryCache'[refreshes[rid].mode] = memoryCache[refreshes[rid].mode]
C34_NoRecordUnchanged == [][C34_NoRecordStep]_vars

\* ------------------------------- Properties of what the caches keep

\* the step in which a refresh of the mode completes with a snapshot
RefreshCompletes(mode) ==
  \E rid \in RefreshIds :
    /\ refreshes[rid].stage = "fetch"
    /\ refreshes[rid].mode = mode
    /\ refreshes'[rid].stage = "ok"

\* the step in which a fetch for the id succeeds
FetchSucceeds(id) ==
  \E o \in Callers :
    /\ fetches[o].stage = "pending"
    /\ fetches[o].id = id
    /\ fetches'[o].stage = "ok"

\* the snapshot part: a record is never removed, and is replaced only by the
\* completion of a refresh, by a record that is not older
C35_SnapshotStep ==
  \A mode \in Modes : memoryCache[mode] # NoRecord =>
    /\ memoryCache'[mode] # NoRecord
    /\ memoryCache'[mode] # memoryCache[mode] =>
         /\ RefreshCompletes(mode)
         /\ memoryCache'[mode].cachedAt >= memoryCache[mode].cachedAt
C35_SnapshotKept == [][C35_SnapshotStep]_vars

\* the body part: an entry is removed or replaced only by a successful fetch
C35_BodyStep ==
  \A id \in BodyIds :
    ( cache[id] # NoEntry /\ cache'[id] # cache[id] ) => FetchSucceeds(id)

\* C35: without a shared store a snapshot record once stored is never removed
\* and is replaced only by the successful completion of a refresh, with a
\* cachedAt that is not smaller; a body-cache entry once stored is removed or
\* replaced only by a successful fetch for its id.
C35_Step == C35_SnapshotStep /\ C35_BodyStep
C35_Kept == [][C35_Step]_vars

\* ------------------------------------ Properties of the reported age

\* the metadata of the payloads that have been returned
SnapshotAnswers ==
  {callers[c].result.payload.metadata : c \in
     {c \in Callers : callers[c].pc = "done" /\ callers[c].result.kind = "ok"}}
BodyAnswers ==
  {bodyCallers[c].result.payload.metadata : c \in
     {c \in Callers : bodyCallers[c].pc = "done" /\ bodyCallers[c].result.kind = "ok"}}

\* C36: every result returned by getSnapshot and getBodyEphemeris has
\* cacheAgeMs >= 0 and 0 <= cacheExpiresInMs <= TTL, whatever refreshes
\* complete while the call is suspended.
C36_AgeInRange ==
  /\ \A m \in SnapshotAnswers :
       /\ m.cacheAgeMs >= 0
       /\ m.cacheExpiresInMs >= 0
       /\ m.cacheExpiresInMs <= CACHE_TTL_MS
  /\ \A c \in Callers :
       ( callers[c].pc = "done" /\ callers[c].result.kind = "ok" ) =>
         callers[c].result.cacheAgeMs >= 0
  /\ \A m \in BodyAnswers :
       /\ m.cacheAgeMs >= 0
       /\ m.cacheExpiresInMs >= 0
       /\ m.cacheExpiresInMs <= BODY_CACHE_TTL_MS

\* ---------------------------------- Properties of the request id

\* the snapshot part: the payload returned to request c names request c
C37_SnapshotOwnId ==
  \A c \in Callers :
    ( callers[c].pc = "done" /\ callers[c].result.kind = "ok" ) =>
      callers[c].result.payload.metadata.requestId = c

\* C37: the requestId in the payload returned to a caller is that caller's
\* own correlation id, never the id of another request, also for a caller
\* that joined a fetch or a refresh another request started, and for one
\* served from a record another request cached, in both caches.
C37_OwnRequestId ==
  /\ C37_SnapshotOwnId
  /\ \A c \in Callers :
       ( bodyCallers[c].pc = "done" /\ bodyCallers[c].result.kind = "ok" ) =>
         bodyCallers[c].result.payload.metadata.requestId = c

\* ------------------------------------------ Properties of termination

\* a call that has not returned yet
SnapshotPending(c) == callers[c].pc \notin {"idle", "done"}
BodyPending(c) == bodyCallers[c].pc \notin {"idle", "done"}

\* C38: where every upstream fetch and every Redis operation eventually
\* settles, every getSnapshot call and every getBodyEphemeris call eventually
\* returns a payload or throws, and every in-flight entry is eventually
\* removed (unless the process has ended, after which nothing settles).
C38_CallsReturn ==
  /\ \A c \in SoloCallers : SnapshotPending(c) ~> (callers[c].pc = "done" \/ crashed)
  /\ \A c \in Callers : BodyPending(c) ~> (bodyCallers[c].pc = "done" \/ crashed)
C38_EntriesRemoved ==
  /\ \A mode \in Modes : (inflightByMode[mode] # 0) ~> (inflightByMode[mode] = 0 \/ crashed)
  /\ \A id \in BodyIds : (inflight[id] # 0) ~> (inflight[id] = 0 \/ crashed)
Building(key) == {o \in Callers : builds[o].stage = "running" /\ builds[o].key = key}

\* the step in which request c enters getCatalog
CatalogCallStep(c) ==
  /\ catalogCallers[c].pc = "idle"
  /\ catalogCallers'[c].pc # "idle"

\* the entry of the key can be returned to a call without forceRefresh
Unexpired(key) ==
  cacheByLang[key] # NoCatalog /\ clock < cacheByLang[key].expiresAt

C39_OneBuild ==
  \A key \in LangKeys :
    /\ Cardinality(Building(key)) <= 1
    /\ Building(key) = IF inflightByLang[key] = 0 THEN {} ELSE {inflightByLang[key]}

C39_Step ==
  /\ \A c \in Callers : CatalogCallStep(c) =>
       LET key == catalogCallers'[c].key
           force == catalogCallers'[c].force
       IN IF ~force /\ Unexpired(key)
          THEN /\ catalogCallers'[c].pc = "done"
               /\ catalogCallers'[c].result.payload = cacheByLang[key].payload
               /\ builds' = builds
               /\ inflightByLang' = inflightByLang
          ELSE IF inflightByLang[key] # 0
          THEN /\ catalogCallers'[c].pc = "await"
               /\ catalogCallers'[c].awaiting = inflightByLang[key]
               /\ builds' = builds
               /\ inflightByLang' = inflightByLang
          ELSE /\ catalogCallers'[c].pc = "await"
               /\ catalogCallers'[c].awaiting = c
               /\ inflightByLang'[key] = c
  /\ \A o \in Callers :
       ( builds[o].stage = "running" /\ builds'[o].stage # "running" ) =>
         inflightByLang'[builds[o].key] = 0

\* C39: for each language key at most one catalog build is in flight:
\* concurrent getCatalog calls that miss or force a refresh for the key share
\* one build, the in-flight entry is removed when the build settles, and a
\* call without forceRefresh that finds an unexpired entry returns the cached
\* payload without starting a build.
C39_OneBuildPerKey == [](C39_OneBuild) /\ [][C39_Step]_vars

\* a call with forceRefresh has joined the build another request started
\* while an unexpired entry of the key exists
C39_Witness ==
  \E c1, c2 \in Callers :
    /\ c1 # c2
    /\ catalogCallers[c1].pc = "await"
    /\ catalogCallers[c2].pc = "await"
    /\ catalogCallers[c1].awaiting = c1
    /\ catalogCallers[c2].awaiting = c1
    /\ catalogCallers[c2].force
    /\ Unexpired(catalogCallers[c2].key)

====
